---- MODULE Spec2Model ----
(***************************************************************************)
(* A2A coordination server: the work queue of AgentTasks and its workers   *)
(* (a2a_server/opencode_bridge.py, a2a_server/monitor_api.py,              *)
(* agent_worker/worker.py), the task lifecycle manager and the JSON-RPC    *)
(* front end with its SSE streams (a2a_server/task_manager.py,             *)
(* a2a_server/server.py), and the in-memory pub/sub broker                 *)
(* (a2a_server/message_broker.py).                                         *)
(*                                                                         *)
(* Each subsystem has its own specification over its own variables; the    *)
(* variables of the other subsystems keep their initial values.            *)
(***************************************************************************)
EXTENDS Integers, Sequences, FiniteSets, TLC

\* ------------------------------------------------------------------ bounds
MaxATasks == 2      \* AgentTasks the queue may hold
MaxWorkers == 2     \* worker processes
MaxTime == 3        \* clock ticks observed
MaxBCancels == 2    \* cancel_task calls on the queue
MaxCodebases == 2   \* registered codebases
MaxPriority == 1    \* task priorities are 0..MaxPriority
LeaseHorizon == 1   \* ticks a RUNNING task may go without an update (spec 4.5)

MaxTasks == 2       \* Tasks the task manager may hold
MaxHandlers == 2    \* update handlers (one per SSE connection)
MaxEvents == 2      \* status updates made through the task manager's API directly
MaxSends == 2       \* message/send requests
MaxCancels == 1     \* tasks/cancel requests
MaxKeepalives == 1  \* idle timeouts of one SSE connection

MaxStreams == 1      \* message/stream requests
MaxTypes == 2        \* event types of the message broker
MaxBHandlers == 2    \* handlers subscribing to the message broker
MaxPublishes == 2    \* publish_event calls
MaxSubs == 3         \* subscribe_to_events calls
MaxUnsubs == 2       \* unsubscribe_from_events calls
MaxCalls == 3        \* task manager calls made on both managers
MaxLoops == 2        \* watch loops created
MaxStarts == 2       \* start_watch_mode calls
MaxMessages == 1     \* distinct messages passed to update_task_status
MaxUpdateCalls == 2  \* update_task_status calls whose return is followed
MaxListeners == 3    \* listener tasks the Redis broker creates
MaxUsers == 2        \* Keycloak users
MaxLogins == 2       \* logins (UserSessions created)
MaxAgentSessions == 1 \* agent sessions a user creates
\* range(5) of _process_streaming_message (server.py:394)
ProgressSteps == 5
\* "\n".join(text_parts)[:5000] of _wait_for_agent_completion (opencode_bridge.py:1207)
ResultLimit == 5000

ATaskIds == 1..MaxATasks
Codebases == 1..MaxCodebases
Priorities == 0..MaxPriority
Workers == 1..MaxWorkers
TaskIds == 1..MaxTasks
HandlerIds == 1..MaxHandlers
Sends == 1..MaxSends
Streams == 1..MaxStreams
EventTypes == 1..MaxTypes
BHandlers == 1..MaxBHandlers
Loops == 1..MaxLoops
StartCalls == 1..MaxStarts

VARIABLES
    \* --- work queue (OpenCodeBridge) and worker registry (monitor_api)
    atStatus,      \* bridge._tasks[t].status; "none" while t is not created
    atStarted,     \* bridge._tasks[t].started_at; -1 is None
    atCompleted,   \* bridge._tasks[t].completed_at; -1 is None
    atFields,      \* codebase_id, priority and created_at of task t, set at creation
    atResult,      \* the length of _tasks[t].result; 0 when it is None
    atSaved,       \* the row of task t in the tasks table (status, completed_at)
    cancelLog,     \* the cancel_task calls made: task, its status at the call, value returned
    now,           \* datetime.utcnow()
    wLastSeen,     \* _registered_workers[w]["last_seen"]; -1 while w is not registered
    \* --- AgentWorker processes
    wpc,           \* position of worker w in start()/poll_loop()/execute_task()
    wlist,         \* the pending tasks worker w fetched and still iterates over
    walive,        \* FALSE once the worker process has died
    wresp,         \* HTTP status of the answer to w's last PUT /tasks/{id}/status; 0 is none yet
    \* --- task lifecycle manager (TaskManager)
    tStatus,       \* _tasks[t].status; "none" while t is not in _tasks
    tProgress,     \* _tasks[t].progress, in units of 1/ProgressSteps
    evLog,         \* per task: every TaskStatusUpdateEvent created for it, in creation order
    handlers,      \* _update_handlers[t]: the handlers registered for task t
    ready,         \* the event loop's FIFO of handler calls scheduled by asyncio.gather
    hqueue,        \* per handler: the events it was called with (its connection's event_queue)
    \* --- JSON-RPC front end: message/send requests
    rpc,           \* position of request r in _handle_send_message
    rtask,         \* the task of request r; 0 is none
    rev,           \* the number, in its task's events, of the event of r's last update; 0 is none
    rraised,       \* TRUE when _process_message raised while serving r
    rresp,         \* the response to request r: "none", "result", or the -32603 error text
    rresStatus,    \* the status of the task in r's result; "none" when there is none
    rheld,         \* the status the Task object had when the task manager handed it to r
    \* --- JSON-RPC front end: the dispatcher (requests are those of message/send)
    cfgAuth,       \* agent_card.card.authentication is declared
    cfgCallback,   \* auth_callback is set
    cfgRedis,      \* task_manager is a RedisTaskManager (else the in-memory one)
    qkind,         \* what request r is: "bad_json", "bad_request", "unknown_method",
                   \* "bad_params" or "ok"; "none" before it arrives
    qtoken,        \* the Bearer token of request r: "none", "bad" or "good"
    qgate,         \* 0 before r is dispatched, 1 when its method handler was called,
                   \* else the JSON-RPC error code the dispatcher answered
    \* --- JSON-RPC front end: message/stream requests
    spc,           \* position of stream s: "idle", "accepted", "open", "ended", "dropped"
    stask,         \* the task created for stream s; 0 is none
    sresub,        \* the task id a tasks/resubscribe request named for stream s; 0 is none
    sframes,       \* the SSE frames written on stream s, in order
    sconns,        \* _streaming_connections[t]: the queues of the streams of task t
    bgpc,          \* position of s's background _process_streaming_message
    bgI,           \* the number of progress updates s's background task has made
    bgev,          \* the number of the event of the background task's last update
    \* --- InMemoryMessageBroker
    bRunning,      \* _running
    subs,          \* _subscribers[e]: the handlers subscribed to event type e
    pub,           \* the publish_event call being delivered; NoPub when there is none
    pubCount,      \* the number of publish_event calls made
    subCalls,      \* the number of subscribe_to_events calls made
    unsubCalls,    \* the number of unsubscribe_from_events calls made
    unsubbed,      \* <<e, h>>: unsubscribe(e, h) has returned and subscribe(e, h) was not called since
    delivered,     \* per handler: the calls it received
    \* --- RedisTaskManager beside a TaskManager that is given the same calls
    tMessages,     \* _tasks[t].messages of the in-memory manager
    kHash,         \* the Redis hash task:{t}; NoHash when the key does not exist
    kIdx,          \* the Redis sets tasks:status:{s}
    kAll,          \* the Redis set tasks:all
    kEvLog,        \* per task: the events RedisTaskManager passed to _notify_handlers
    kcall,         \* the RedisTaskManager call in progress, with its local Task object
    kCalls,        \* the number of calls made so far
    \* --- OpenCodeBridge watch mode
    cbStatus,      \* _codebases[c].status
    cbPort,        \* _codebases[c].opencode_port is set
    cbWatch,       \* _codebases[c].watch_mode
    watchRec,      \* _watch_tasks[c]: the watch loop recorded for c; 0 when c is not a key
    loops,         \* per watch loop: its codebase, where it is, the task it executes,
                   \* and whether cancel() was called on it
    starts,        \* per start_watch_mode call: where it is and its codebase
    stopcall,      \* the stop_watch_mode call in progress
    stopped,       \* the codebases for which stop_watch_mode returned True and
                   \* start_watch_mode was not called since
    \* --- update handlers that raise or hang
    hkind,         \* what handler h does when called: "returns", "raises" or "hangs"
    hseen,         \* per handler: the events it was called with
    hung,          \* the handler calls that are suspended and never resume
    ucalls,        \* the update_task_status calls made: task, event, and whether the call returned
    \* --- MessageBroker (Redis pub/sub)
    mbRunning,     \* _running
    mbKeys,        \* the channels that are keys of _subscribers
    mbSubs,        \* _subscribers[channel]; {} for a channel that is not a key
    mbTasks,       \* _subscription_tasks[channel]: a listener task; 0 when the channel is not a key
    listeners,     \* per listener task: its channel, where it is, and whether cancel() was called on it
    mbStopped,     \* stop() was called at some time
    \* --- codebase registry
    cbGone,        \* the codebases for which unregister_codebase returned True
    \* --- KeycloakAuthService and the auth API
    usess,         \* per login: its user and whether its UserSession is in _sessions ("none", "active", "out"); the access token of login i is token i
    tokExpired,    \* the access tokens whose exp has passed
    uassoc,        \* _user_codebases[u], as the set of codebase ids
    uagent,        \* the number of agent sessions of user u in _agent_sessions
    authResp,      \* the last answer of a per-user read endpoint
    \* --- AgentWorker, client side
    awRunning,     \* self.running of worker w
    awSent         \* per worker: the task status updates it has sent, in order, each with the value self.running had

bridgeVars == <<atStatus, atFields, atStarted, atCompleted, atResult, atSaved, cancelLog, now, wLastSeen, wpc, wlist,
                walive, wresp>>

tmVars == <<tStatus, tProgress, evLog, handlers, ready, hqueue>>
sendVars == <<rpc, rtask, rev, rraised, rresp, rresStatus, rheld>>

streamVars == <<spc, stask, sresub, sframes, sconns, bgpc, bgI, bgev>>
brokerVars == <<bRunning, subs, pub, pubCount, subCalls, unsubCalls, unsubbed, delivered>>

rpcVars == <<cfgAuth, cfgCallback, cfgRedis, qkind, qtoken, qgate>>
storeVars == <<tMessages, kHash, kIdx, kAll, kEvLog, kcall, kCalls>>
watchVars == <<cbStatus, cbPort, cbWatch, watchRec, loops, starts, stopcall, stopped>>

gatherVars == <<hkind, hseen, hung, ucalls>>

mbVars == <<mbRunning, mbKeys, mbSubs, mbTasks, listeners, mbStopped>>

regVars == <<cbGone>>

authVars == <<usess, tokExpired, uassoc, uagent, authResp>>

awVars == <<awRunning, awSent>>

vars == <<bridgeVars, tmVars, sendVars, rpcVars, streamVars, brokerVars, storeVars,
          watchVars, gatherVars, mbVars, regVars, authVars, awVars>>

\* What the operations of one component leave alone.
bridgeRest == <<tmVars, sendVars, rpcVars, streamVars, brokerVars, storeVars, watchVars,
                gatherVars, mbVars, regVars, authVars, awVars>>
tmRest == <<bridgeVars, sendVars, rpcVars, streamVars, brokerVars, storeVars, watchVars,
            gatherVars, mbVars, regVars, authVars, awVars>>
sendRest == <<bridgeVars, rpcVars, streamVars, brokerVars, storeVars, watchVars,
              gatherVars, mbVars, regVars, authVars, awVars>>
rpcRest == <<bridgeVars, tmVars, streamVars, brokerVars, storeVars, watchVars, gatherVars,
             mbVars, regVars, authVars, awVars>>
streamRest == <<bridgeVars, sendVars, rpcVars, brokerVars, storeVars, watchVars,
                gatherVars, mbVars, regVars, authVars, awVars>>
brokerRest == <<bridgeVars, tmVars, sendVars, rpcVars, streamVars, storeVars, watchVars,
                gatherVars, mbVars, regVars, authVars, awVars>>
storeRest == <<bridgeVars, sendVars, rpcVars, streamVars, brokerVars, watchVars,
               gatherVars, mbVars, regVars, authVars, awVars>>
watchRest == <<tmVars, sendVars, rpcVars, streamVars, brokerVars, storeVars, gatherVars,
               mbVars, regVars, authVars, awVars>>
gatherRest == <<bridgeVars, sendVars, rpcVars, streamVars, brokerVars, storeVars,
                watchVars, mbVars, regVars, authVars, awVars>>
mbRest == <<bridgeVars, tmVars, sendVars, rpcVars, streamVars, brokerVars, storeVars,
            watchVars, gatherVars, regVars, authVars, awVars>>
regRest == <<tmVars, sendVars, rpcVars, streamVars, brokerVars, storeVars, gatherVars,
             mbVars, authVars, awVars>>
authRest == <<bridgeVars, tmVars, sendVars, rpcVars, streamVars, brokerVars, storeVars,
              watchVars, gatherVars, mbVars, regVars, awVars>>
awRest == <<tmVars, sendVars, rpcVars, streamVars, brokerVars, storeVars, watchVars,
           gatherVars, mbVars, regVars, authVars>>

\* ================================================================ work queue
\* AgentTaskStatus (opencode_bridge.py:43-50)
AgentTaskStatus == {"pending", "assigned", "running", "completed", "failed", "cancelled"}
AgentTerminal == {"completed", "failed", "cancelled"}

\* A sort that looks at created_at only.
OldestFirst(a, b) == atFields[a].created < atFields[b].created

\* The sort key of list_tasks, (-priority, created_at): task a goes before task b.
KeyLess(a, b) ==
    \/ atFields[a].priority > atFields[b].priority
    \/ /\ atFields[a].priority = atFields[b].priority
       /\ atFields[a].created < atFields[b].created

\* list.sort(key=...) of the tasks S: ascending in the key and stable, tasks of equal
\* key stay in the order of _tasks, which is the order of creation (of task ids).
RECURSIVE SortedSeq(_)
SortedSeq(S) ==
    IF S = {} THEN <<>>
    ELSE LET m == CHOOSE x \in S : \A y \in S \ {x} :
                      KeyLess(x, y) \/ (~KeyLess(y, x) /\ x < y)
         IN <<m>> \o SortedSeq(S \ {m})

\* bridge.list_tasks(codebase_id=c, status=s); c = 0 and s = "any" are the None of
\* the two filters.
ListTasks(c, s) ==
    SortedSeq({t \in ATaskIds : /\ atStatus[t] # "none"
                                /\ c # 0 => atFields[t].codebase = c
                                /\ s # "any" => atStatus[t] = s})

\* bridge.get_next_pending_task(c): the first of the pending tasks of c; 0 is None.
GetNextPendingTask(c) ==
    IF ListTasks(c, "pending") = <<>> THEN 0 ELSE Head(ListTasks(c, "pending"))

\* The fields of a task before it is created.
NoFields == [codebase |-> 0, priority |-> 0, created |-> -1]

\* _save_task(task): INSERT OR REPLACE of the task's row; NoRow while there is none.
Row(s, c) == [status |-> s, completed |-> c]
NoRow == Row("none", -1)

InitBridge ==
    /\ atStatus = [t \in ATaskIds |-> "none"]
    /\ atFields = [t \in ATaskIds |-> NoFields]
    /\ atStarted = [t \in ATaskIds |-> -1]
    /\ atCompleted = [t \in ATaskIds |-> -1]
    /\ atResult = [t \in ATaskIds |-> 0]
    /\ atSaved = [t \in ATaskIds |-> NoRow]
    /\ cancelLog = <<>>
    /\ now = 0
    /\ wLastSeen = [w \in Workers |-> -1]
    /\ wpc = [w \in Workers |-> "start"]
    /\ wlist = [w \in Workers |-> <<>>]
    /\ walive = [w \in Workers |-> TRUE]
    /\ wresp = [w \in Workers |-> 0]

\* bridge.create_task(codebase_id=c, priority=p): None for a codebase that is not
\* registered (c = 0), else a new PENDING task under a fresh id, saved.
BridgeCreate(c, p) ==
    /\ IF c = 0
       THEN UNCHANGED <<atStatus, atFields, atSaved>>
       ELSE \E t \in ATaskIds :
               /\ atStatus[t] = "none"
               /\ \A u \in ATaskIds : u < t => atStatus[u] # "none"
               /\ atStatus' = [atStatus EXCEPT ![t] = "pending"]
               /\ atFields' = [atFields EXCEPT ![t] =
                                 [codebase |-> c, priority |-> p, created |-> now]]
               /\ atSaved' = [atSaved EXCEPT ![t] = Row("pending", -1)]
    /\ UNCHANGED <<atStarted, atCompleted, now, wLastSeen, wpc, wlist, walive, wresp>>
    /\ UNCHANGED <<cancelLog, atResult>>
    /\ UNCHANGED bridgeRest

\* bridge.create_task with the default priority, for the first codebase.
BridgeCreateTask == BridgeCreate(1, 0)

\* The lengths of the texts workers and agents produce: up to and beyond the limit.
ResultLens == {ResultLimit, ResultLimit + 1}

\* s[:5000] of a text of length n
Truncated(n) == IF n > ResultLimit THEN ResultLimit ELSE n

\* "if result: task.result = result" of update_task_status, for a result of
\* length n where the task's result had length old.
StoredResult(old, n) == IF n # 0 THEN n ELSE old

\* bridge.update_task_status(t, s, result) with a result of length n: the new fields
\* of task t (the task exists).
BridgeUpdateStatus(t, s, n) ==
    /\ atStatus' = [atStatus EXCEPT ![t] = s]
    /\ atResult' = [atResult EXCEPT ![t] = StoredResult(@, n)]
    /\ atStarted' = IF s = "running" THEN [atStarted EXCEPT ![t] = now] ELSE atStarted
    /\ atCompleted' = IF s \in AgentTerminal
                         THEN [atCompleted EXCEPT ![t] = now] ELSE atCompleted
    /\ atSaved' = [atSaved EXCEPT ![t] =
                      Row(s, IF s \in AgentTerminal THEN now ELSE atCompleted[t])]

\* PUT /tasks/{t}/status {status: s, worker_id: w, result: of length n}: 404 for an
\* unknown task, else the bridge applies the status and the result, the worker's
\* last_seen is refreshed and 200 is returned.
PutTaskStatus(w, t, s, n) ==
    IF atStatus[t] = "none"
    THEN /\ wresp' = [wresp EXCEPT ![w] = 404]
         /\ UNCHANGED <<atStatus, atStarted, atCompleted, atResult, atSaved, wLastSeen>>
    ELSE /\ BridgeUpdateStatus(t, s, n)
         /\ wLastSeen' = IF wLastSeen[w] # -1 THEN [wLastSeen EXCEPT ![w] = now]
                                             ELSE wLastSeen
         /\ wresp' = [wresp EXCEPT ![w] = 200]

\* A cancel_task that also takes a task away from the worker running it.
CancellableAlsoRunning(s) == s \in {"pending", "assigned", "running"}

\* "task.status not in (PENDING, ASSIGNED): return False" of cancel_task; an unknown
\* task has status "none".
Cancellable(s) == s \in {"pending", "assigned"}

\* bridge.cancel_task(t) / POST /tasks/{t}/cancel: only a PENDING or ASSIGNED task
\* is cancelled and saved, and True returned; anything else is refused with False
\* and nothing changes.
BridgeCancelTask ==
    /\ Len(cancelLog) < MaxBCancels
    /\ \E t \in ATaskIds :
        /\ IF Cancellable(atStatus[t])
           THEN /\ atStatus' = [atStatus EXCEPT ![t] = "cancelled"]
                /\ atCompleted' = [atCompleted EXCEPT ![t] = now]
                /\ atSaved' = [atSaved EXCEPT ![t] = Row("cancelled", now)]
           ELSE UNCHANGED <<atStatus, atCompleted, atSaved>>
        /\ cancelLog' = Append(cancelLog, [task |-> t, was |-> atStatus[t],
                                           ok |-> Cancellable(atStatus[t])])
    /\ UNCHANGED <<atFields, atStarted, atResult, now, wLastSeen, wpc, wlist, walive, wresp>>
    /\ UNCHANGED bridgeRest

\* POST /workers/register, sent by AgentWorker.start().
WorkerRegister(w) ==
    /\ walive[w]
    /\ wpc[w] = "start"
    /\ wLastSeen' = [wLastSeen EXCEPT ![w] = now]
    /\ wpc' = [wpc EXCEPT ![w] = "poll"]
    /\ UNCHANGED <<atStatus, atStarted, atCompleted, now, wlist, walive, wresp>>
    /\ UNCHANGED <<atFields, atResult, atSaved, cancelLog>>
    /\ UNCHANGED bridgeRest

\* POST /workers/{w}/heartbeat: refreshes last_seen of a registered worker.
WorkerHeartbeat(w) ==
    /\ walive[w]
    /\ wLastSeen[w] # -1
    /\ wLastSeen' = [wLastSeen EXCEPT ![w] = now]
    /\ UNCHANGED <<atStatus, atStarted, atCompleted, now, wpc, wlist, walive, wresp>>
    /\ UNCHANGED <<atFields, atResult, atSaved, cancelLog>>
    /\ UNCHANGED bridgeRest

\* POST /codebases {..., worker_id: w}: the worker a codebase was registered for.
\* Codebase c is the one worker c registered.
BoundWorker(c) == c

\* GET /tasks?status=s&worker_id=w: list_all_tasks takes codebase_id and status;
\* worker_id is no parameter of it and is ignored.
GetTasks(w, s) == ListTasks(0, s)

\* poll_loop: get_pending_tasks() = GET /tasks?status=pending&worker_id=w, then
\* iterate. The worker keeps the tasks of the codebases it holds; the workers of
\* the model hold every codebase.
WorkerPoll(w) ==
    /\ walive[w]
    /\ wpc[w] = "poll"
    /\ wlist' = [wlist EXCEPT ![w] = GetTasks(w, "pending")]
    /\ wpc' = [wpc EXCEPT ![w] = IF GetTasks(w, "pending") = <<>> THEN "poll" ELSE "iter"]
    /\ UNCHANGED <<atStatus, atStarted, atCompleted, now, wLastSeen, walive, wresp>>
    /\ UNCHANGED <<atFields, atResult, atSaved, cancelLog>>
    /\ UNCHANGED bridgeRest

\* execute_task, first half: "claim" the next fetched task with PUT status=running.
\* The worker only logs a non-200 answer and runs the task in any case.
WorkerClaim(w) ==
    /\ walive[w]
    /\ wpc[w] = "iter"
    /\ PutTaskStatus(w, Head(wlist[w]), "running", 0)
    /\ wpc' = [wpc EXCEPT ![w] = "exec"]
    /\ UNCHANGED <<now, wlist, walive>>
    /\ UNCHANGED <<atFields, cancelLog>>
    /\ UNCHANGED bridgeRest

\* execute_task, second half: run_opencode ended; PUT completed with the output as
\* result, or failed with an error, then the loop goes to the next fetched task, or
\* sleeps and polls again.
WorkerFinish(w) ==
    /\ walive[w]
    /\ wpc[w] = "exec"
    /\ \/ \E n \in ResultLens : PutTaskStatus(w, Head(wlist[w]), "completed", n)
       \/ PutTaskStatus(w, Head(wlist[w]), "failed", 0)
    /\ wlist' = [wlist EXCEPT ![w] = Tail(wlist[w])]
    /\ wpc' = [wpc EXCEPT ![w] = IF Tail(wlist[w]) = <<>> THEN "poll" ELSE "iter"]
    /\ UNCHANGED <<now, walive>>
    /\ UNCHANGED <<atFields, cancelLog>>
    /\ UNCHANGED bridgeRest

\* The worker process dies: it sends nothing any more.
WorkerDie(w) ==
    /\ walive[w]
    /\ wpc[w] \in {"poll", "iter", "exec"}
    /\ walive' = [walive EXCEPT ![w] = FALSE]
    /\ UNCHANGED <<atStatus, atStarted, atCompleted, now, wLastSeen, wpc, wlist, wresp>>
    /\ UNCHANGED <<atFields, atResult, atSaved, cancelLog>>
    /\ UNCHANGED bridgeRest

\* Time passes.
Tick ==
    /\ now < MaxTime
    /\ now' = now + 1
    /\ UNCHANGED <<atStatus, atStarted, atCompleted, wLastSeen, wpc, wlist, walive, wresp>>
    /\ UNCHANGED <<atFields, atResult, atSaved, cancelLog>>
    /\ UNCHANGED bridgeRest

BridgeNext ==
    \/ BridgeCreateTask
    \/ BridgeCancelTask
    \/ \E w \in Workers : WorkerRegister(w)
    \/ \E w \in Workers : WorkerPoll(w)
    \/ \E w \in Workers : WorkerClaim(w)
    \/ \E w \in Workers : WorkerFinish(w)

\* Tasks of any codebase and priority, created at different times, and cancelled.
QueueNext ==
    \/ \E c \in Codebases \cup {0}, p \in Priorities : BridgeCreate(c, p)
    \/ BridgeCancelTask
    \/ Tick

\* The queue and its workers with passing time, heartbeats and dying workers.
LeaseNext ==
    \/ BridgeCreateTask
    \/ \E w \in Workers : WorkerRegister(w)
    \/ \E w \in Workers : WorkerPoll(w)
    \/ \E w \in Workers : WorkerClaim(w)
    \/ \E w \in Workers : WorkerFinish(w)
    \/ \E w \in Workers : WorkerHeartbeat(w)
    \/ \E w \in Workers : WorkerDie(w)
    \/ Tick

\* ====================================================== AgentWorker, client side
InitAW ==
    /\ awRunning = [w \in Workers |-> FALSE]
    /\ awSent = [w \in Workers |-> <<>>]

\* A loop that goes on to the next task whatever the running flag says.
StartsAnyway(running) == TRUE

\* "if not self.running: break" of poll_loop, before each fetched task.
MayStart(running) == running

\* update_task_status(t, s): the PUT is sent (a failure is only logged).
Sent(w, t, s) ==
    awSent' = [awSent EXCEPT ![w] = Append(@, [task |-> t, status |-> s, on |-> awRunning[w]])]

\* start(): running is set, the worker registers, and poll_loop begins.
AWStart(w) ==
    /\ wpc[w] = "start"
    /\ awRunning' = [awRunning EXCEPT ![w] = TRUE]
    /\ wLastSeen' = [wLastSeen EXCEPT ![w] = now]
    /\ wpc' = [wpc EXCEPT ![w] = "poll"]
    /\ UNCHANGED <<atStatus, atFields, atStarted, atCompleted, atResult, atSaved, cancelLog,
                   now, wlist, walive, wresp, awSent>>
    /\ UNCHANGED awRest

\* stop(), run as a task by the signal handler: running is cleared (and the
\* processes of active tasks are terminated, which ends their run_opencode).
AWStop(w) ==
    /\ awRunning[w]
    /\ awRunning' = [awRunning EXCEPT ![w] = FALSE]
    /\ UNCHANGED <<bridgeVars, awSent>>
    /\ UNCHANGED awRest

\* "while self.running:" holds: get_pending_tasks, then the for loop over the tasks
\* fetched, or the sleep when there are none.
AWPoll(w) ==
    /\ wpc[w] = "poll"
    /\ awRunning[w]
    /\ wlist' = [wlist EXCEPT ![w] = GetTasks(w, "pending")]
    /\ wpc' = [wpc EXCEPT ![w] = IF GetTasks(w, "pending") = <<>> THEN "poll" ELSE "iter"]
    /\ UNCHANGED <<atStatus, atFields, atStarted, atCompleted, atResult, atSaved, cancelLog,
                   now, wLastSeen, walive, wresp, awRunning, awSent>>
    /\ UNCHANGED awRest

\* "while self.running:" fails: poll_loop returns.
AWExit(w) ==
    /\ wpc[w] = "poll"
    /\ ~awRunning[w]
    /\ wLastSeen[w] # -1
    /\ wpc' = [wpc EXCEPT ![w] = "exited"]
    /\ UNCHANGED <<atStatus, atFields, atStarted, atCompleted, atResult, atSaved, cancelLog,
                   now, wLastSeen, wlist, walive, wresp, awRunning, awSent>>
    /\ UNCHANGED awRest

\* The for loop reaches the next fetched task with running cleared: break, and the
\* rest of the list is dropped.
AWBreak(w) ==
    /\ wpc[w] = "iter"
    /\ ~MayStart(awRunning[w])
    /\ wlist' = [wlist EXCEPT ![w] = <<>>]
    /\ wpc' = [wpc EXCEPT ![w] = "poll"]
    /\ UNCHANGED <<atStatus, atFields, atStarted, atCompleted, atResult, atSaved, cancelLog,
                   now, wLastSeen, walive, wresp, awRunning, awSent>>
    /\ UNCHANGED awRest

\* execute_task up to run_opencode: status running is sent for the next fetched
\* task; nothing suspends between the check of running and this call.
AWClaim(w) ==
    /\ wpc[w] = "iter"
    /\ MayStart(awRunning[w])
    /\ PutTaskStatus(w, Head(wlist[w]), "running", 0)
    /\ Sent(w, Head(wlist[w]), "running")
    /\ wpc' = [wpc EXCEPT ![w] = "exec"]
    /\ UNCHANGED <<atFields, cancelLog, now, wlist, walive, awRunning>>
    /\ UNCHANGED awRest

\* execute_task after run_opencode returned its result: completed is sent for a
\* success, failed for a failure (run_opencode catches its own exceptions, and
\* update_task_status raises none, so the except branch sends nothing more); then
\* the for loop goes on.
AWFinish(w) ==
    /\ wpc[w] = "exec"
    /\ \E s \in {"completed", "failed"} :
        /\ PutTaskStatus(w, Head(wlist[w]), s, IF s = "completed" THEN ResultLimit ELSE 0)
        /\ Sent(w, Head(wlist[w]), s)
    /\ wlist' = [wlist EXCEPT ![w] = Tail(wlist[w])]
    /\ wpc' = [wpc EXCEPT ![w] = IF Tail(wlist[w]) = <<>> THEN "poll" ELSE "iter"]
    /\ UNCHANGED <<atFields, cancelLog, now, walive, awRunning>>
    /\ UNCHANGED awRest

\* ====================================================== task lifecycle manager
\* TaskStatus (models.py, as used by task_manager.py and server.py)
TaskStatus == {"pending", "working", "completed", "cancelled", "failed"}
Terminal == {"completed", "cancelled", "failed"}

\* progress=None of update_task_status
NoProgress == -1
\* the progress values a direct caller of update_task_status passes
ProgressInputs == {NoProgress}

InitTM ==
    /\ tStatus = [t \in TaskIds |-> "none"]
    /\ tProgress = [t \in TaskIds |-> 0]
    /\ evLog = [t \in TaskIds |-> <<>>]
    /\ handlers = [t \in TaskIds |-> <<>>]
    /\ ready = <<>>
    /\ hqueue = [h \in HandlerIds |-> <<>>]

\* uuid.uuid4(): an id no task has had.
FreshTask(t) ==
    /\ tStatus[t] = "none"
    /\ \A u \in TaskIds : u < t => tStatus[u] # "none"

\* TaskStatusUpdateEvent(task=task, message=message, final=final), with the status
\* the update set.
NewEvent(s, final) == [status |-> s, final |-> final]

\* _notify_handlers: a copy of the handlers registered for t, one call per handler,
\* with the e-th event of task t.
Invocations(t, e) ==
    [i \in 1..Len(handlers[t]) |-> [h |-> handlers[t][i], task |-> t, ev |-> e]]

\* A dispatch that runs the newest handler calls first.
ScheduleNewestFirst(q, calls) == calls \o q

\* asyncio.gather(*calls): each call becomes a Task that the event loop runs in the
\* order of scheduling (call_soon is FIFO).
Schedule(q, calls) == q \o calls

\* update_task_status(t, s, message, prog, final) on an existing task: up to the
\* await of gather nothing suspends (both locks are free whenever a coroutine runs),
\* so the status change, the event and the scheduling of the handler calls are one step.
TMUpdate(t, s, prog, final) ==
    /\ tStatus' = [tStatus EXCEPT ![t] = s]
    /\ tProgress' = IF prog # NoProgress THEN [tProgress EXCEPT ![t] = prog] ELSE tProgress
    /\ evLog' = [evLog EXCEPT ![t] = Append(@, NewEvent(s, final))]
    /\ ready' = Schedule(ready, Invocations(t, Len(evLog[t]) + 1))

\* The await of gather in the update that created the e-th event of task t has
\* returned: every handler call scheduled for it has run.
GatherDone(t, e) == \A i \in 1..Len(ready) : ~(ready[i].task = t /\ ready[i].ev = e)

\* The number of events created so far, and of those that set CANCELLED.
RECURSIVE EventCount(_)
EventCount(T) ==
    IF T = {} THEN 0
    ELSE LET t == CHOOSE x \in T : TRUE IN Len(evLog[t]) + EventCount(T \ {t})
RECURSIVE CancelCount(_)
CancelCount(T) ==
    IF T = {} THEN 0
    ELSE LET t == CHOOSE x \in T : TRUE
         IN Cardinality({i \in 1..Len(evLog[t]) : evLog[t][i].status = "cancelled"})
                + CancelCount(T \ {t})

\* create_task(): a new PENDING task under a fresh uuid.
TMCreateTask ==
    /\ \E t \in TaskIds :
        /\ FreshTask(t)
        /\ tStatus' = [tStatus EXCEPT ![t] = "pending"]
    /\ UNCHANGED <<tProgress, evLog, handlers, ready, hqueue>>
    /\ UNCHANGED tmRest

\* create_task(task_id=t) with a caller-supplied id: _tasks[t] is set to a new
\* PENDING task, whether or not t is already there.
TMCreateTaskWithId ==
    /\ \E t \in TaskIds :
        /\ tStatus' = [tStatus EXCEPT ![t] = "pending"]
        /\ tProgress' = [tProgress EXCEPT ![t] = 0]
    /\ UNCHANGED <<evLog, handlers, ready, hqueue>>
    /\ UNCHANGED tmRest

\* update_task_status called directly, with any status, progress and final flag;
\* an unknown task id returns None and changes nothing.
TMUpdateTaskStatus ==
    /\ EventCount(TaskIds) < MaxEvents
    /\ \E t \in TaskIds, s \in TaskStatus, prog \in ProgressInputs, final \in BOOLEAN :
        IF tStatus[t] = "none"
        THEN UNCHANGED <<tStatus, tProgress, evLog, ready>>
        ELSE TMUpdate(t, s, prog, final)
    /\ UNCHANGED <<handlers, hqueue>>
    /\ UNCHANGED tmRest

\* cancel_task(t), also as called by tasks/cancel (_handle_cancel_task):
\* update_task_status(t, CANCELLED, final=True).
TMCancelTask ==
    /\ CancelCount(TaskIds) < MaxCancels
    /\ \E t \in TaskIds :
        IF tStatus[t] = "none"
        THEN UNCHANGED <<tStatus, tProgress, evLog, ready>>
        ELSE TMUpdate(t, "cancelled", NoProgress, TRUE)
    /\ UNCHANGED <<handlers, hqueue>>
    /\ UNCHANGED tmRest

\* register_update_handler(t, h); a handler is a closure made for one task, so it is
\* registered for one task at a time.
TMRegisterHandler ==
    /\ \E t \in TaskIds, h \in HandlerIds :
        /\ tStatus[t] # "none"
        /\ \A u \in TaskIds : \A i \in 1..Len(handlers[u]) : handlers[u][i] # h
        /\ handlers' = [handlers EXCEPT ![t] = Append(handlers[t], h)]
    /\ UNCHANGED <<tStatus, tProgress, evLog, ready, hqueue>>
    /\ UNCHANGED tmRest

\* list.remove(x): the sequence q without the first occurrence of x.
RECURSIVE RemoveFirst(_, _)
RemoveFirst(q, x) ==
    IF q = <<>> THEN <<>>
    ELSE IF Head(q) = x THEN Tail(q)
    ELSE <<Head(q)>> \o RemoveFirst(Tail(q), x)

\* unregister_update_handler(t, h); a handler that is not registered is ignored.
TMUnregisterHandler ==
    /\ \E t \in TaskIds, h \in HandlerIds :
        handlers' = [handlers EXCEPT ![t] = RemoveFirst(handlers[t], h)]
    /\ UNCHANGED <<tStatus, tProgress, evLog, ready, hqueue>>
    /\ UNCHANGED tmRest

\* The event loop runs the next scheduled handler call (_safe_call_handler): the
\* handler puts the event into its queue.
RunHandler ==
    /\ ready # <<>>
    /\ hqueue' = [hqueue EXCEPT ![Head(ready).h] =
                                    Append(@, [task |-> Head(ready).task, ev |-> Head(ready).ev])]
    /\ ready' = Tail(ready)
    /\ UNCHANGED <<tStatus, tProgress, evLog, handlers>>
    /\ UNCHANGED tmRest

\* ================================================ handlers that raise or hang
\* What a handler does with an event: it returns (the SSE handler's put into its
\* queue), it raises an Exception, or it is a coroutine whose await never completes.
HandlerKinds == {"returns", "raises", "hangs"}

InitGather ==
    /\ hkind = [h \in HandlerIds |-> "returns"]
    /\ hseen = [h \in HandlerIds |-> {}]
    /\ hung = {}
    /\ ucalls = <<>>

\* register_update_handler(t, h) for a handler h of kind k that is registered nowhere.
RegisterHandlerOfKind ==
    /\ \E t \in TaskIds, h \in HandlerIds, k \in HandlerKinds :
        /\ tStatus[t] # "none"
        /\ \A u \in TaskIds : \A i \in 1..Len(handlers[u]) : handlers[u][i] # h
        /\ hseen[h] = {}
        /\ handlers' = [handlers EXCEPT ![t] = Append(handlers[t], h)]
        /\ hkind' = [hkind EXCEPT ![h] = k]
    /\ UNCHANGED <<tStatus, tProgress, evLog, ready, hqueue, hseen, hung, ucalls>>
    /\ UNCHANGED gatherRest

\* update_task_status(t, s) by a caller that waits for its return. The call runs up
\* to "await asyncio.gather(...)" of _notify_handlers; with no handler registered
\* there is no gather and the call returns at once.
UpdateCall ==
    /\ Len(ucalls) < MaxUpdateCalls
    /\ \E t \in TaskIds, s \in {"working", "completed"} :
        /\ tStatus[t] # "none"
        /\ TMUpdate(t, s, NoProgress, FALSE)
        /\ ucalls' = Append(ucalls, [task |-> t, ev |-> Len(evLog[t]) + 1,
                                     returned |-> handlers[t] = <<>>])
    /\ UNCHANGED <<handlers, hqueue, hkind, hseen, hung>>
    /\ UNCHANGED gatherRest

\* The event loop runs the next _safe_call_handler: the handler is called with the
\* event; one that returns has put it into its queue, one that raises has the
\* exception caught and printed, one that hangs leaves the call suspended.
CallHandler ==
    /\ ready # <<>>
    /\ LET c == Head(ready) IN
        /\ hseen' = [hseen EXCEPT ![c.h] = @ \cup {<<c.task, c.ev>>}]
        /\ hqueue' = IF hkind[c.h] = "returns"
                     THEN [hqueue EXCEPT ![c.h] = Append(@, [task |-> c.task, ev |-> c.ev])]
                     ELSE hqueue
        /\ hung' = IF hkind[c.h] = "hangs" THEN hung \cup {c} ELSE hung
    /\ ready' = Tail(ready)
    /\ UNCHANGED <<tStatus, tProgress, evLog, handlers, hkind, ucalls>>
    /\ UNCHANGED gatherRest

\* asyncio.gather(..., return_exceptions=True) for the e-th event of task t has
\* returned: every call it awaits has finished, by returning or by raising.
GatherReturned(t, e) ==
    /\ GatherDone(t, e)
    /\ \A c \in hung : ~(c.task = t /\ c.ev = e)

\* update_task_status returns the task to its caller.
UpdateReturn(u) ==
    /\ u <= Len(ucalls)
    /\ ~ucalls[u].returned
    /\ GatherReturned(ucalls[u].task, ucalls[u].ev)
    /\ ucalls' = [ucalls EXCEPT ![u].returned = TRUE]
    /\ UNCHANGED <<tmVars, hkind, hseen, hung>>
    /\ UNCHANGED gatherRest

\* ============================================================== message/send
InitSend ==
    /\ rpc = [r \in Sends |-> "idle"]
    /\ rtask = [r \in Sends |-> 0]
    /\ rev = [r \in Sends |-> 0]
    /\ rraised = [r \in Sends |-> FALSE]
    /\ rresp = [r \in Sends |-> "none"]
    /\ rresStatus = [r \in Sends |-> "none"]
    /\ rheld = [r \in Sends |-> "none"]

\* _handle_send_message up to the first update: the task named by task_id (0: none
\* given, a task is created) is looked up and set to WORKING. An unknown task_id
\* raises ValueError, which _handle_jsonrpc_request answers with error -32603.
SendStart(r) ==
    /\ rpc[r] = "idle"
    /\ \E tid \in TaskIds \cup {0} :
        \/ /\ tid # 0
           /\ tStatus[tid] = "none"
           /\ rpc' = [rpc EXCEPT ![r] = "replied"]
           /\ rresp' = [rresp EXCEPT ![r] = "Internal error: Task not found"]
           /\ UNCHANGED <<tmVars, rtask, rev, rheld>>
        \/ /\ \E t \in TaskIds :
                /\ IF tid = 0 THEN FreshTask(t) ELSE t = tid /\ tStatus[t] # "none"
                /\ TMUpdate(t, "working", NoProgress, FALSE)
                /\ rtask' = [rtask EXCEPT ![r] = t]
                /\ rheld' = [rheld EXCEPT ![r] = IF tid = 0 THEN "pending" ELSE tStatus[t]]
                /\ rev' = [rev EXCEPT ![r] = Len(evLog[t]) + 1]
           /\ rpc' = [rpc EXCEPT ![r] = "working"]
           /\ UNCHANGED <<handlers, hqueue, rresp>>
    /\ UNCHANGED <<rraised, rresStatus, sendRest>>

\* _process_message(request.message, request.skill_id) returns, and the task is set
\* to COMPLETED with final=True.
SendProcessed(r) ==
    /\ rpc[r] = "working"
    /\ GatherDone(rtask[r], rev[r])
    /\ TMUpdate(rtask[r], "completed", NoProgress, TRUE)
    /\ rev' = [rev EXCEPT ![r] = Len(evLog[rtask[r]]) + 1]
    /\ rpc' = [rpc EXCEPT ![r] = "completed"]
    /\ UNCHANGED <<handlers, hqueue, rtask, rraised, rresp, rresStatus, rheld, sendRest>>

\* _process_message raises (CustomA2AAgent's does unless overridden, and an
\* override may): nothing in _handle_send_message catches it, so
\* _handle_jsonrpc_request answers with error -32603 and the task is not touched.
SendHandlerRaises(r) ==
    /\ rpc[r] = "working"
    /\ GatherDone(rtask[r], rev[r])
    /\ rpc' = [rpc EXCEPT ![r] = "replied"]
    /\ rraised' = [rraised EXCEPT ![r] = TRUE]
    /\ rresp' = [rresp EXCEPT ![r] = "Internal error: handler"]
    /\ UNCHANGED <<tmVars, rtask, rev, rresStatus, rheld, sendRest>>

\* The Task object _handle_send_message holds, as it is now. TaskManager keeps the
\* object it handed out and update_task_status changes that object;
\* RedisTaskManager.update_task_status changes an object it deserializes from the
\* stored hash, and the one handed out by create_task or get_task stays as it was.
HeldStatus(r) == IF cfgRedis THEN rheld[r] ELSE tStatus[rtask[r]]

\* The rest of _handle_send_message: the SendMessageResponse is built from the task
\* object the handler holds.
SendReply(r) ==
    /\ rpc[r] = "completed"
    /\ GatherDone(rtask[r], rev[r])
    /\ rpc' = [rpc EXCEPT ![r] = "replied"]
    /\ rresp' = [rresp EXCEPT ![r] = "result"]
    /\ rresStatus' = [rresStatus EXCEPT ![r] = HeldStatus(r)]
    /\ UNCHANGED <<tmVars, rtask, rev, rraised, rheld, sendRest>>

\* ===================================================== JSON-RPC dispatcher
RpcKinds == {"bad_json", "bad_request", "unknown_method", "bad_params", "ok"}
Tokens == {"none", "bad", "good"}

InitRpc ==
    /\ cfgAuth = FALSE
    /\ cfgCallback = FALSE
    /\ cfgRedis = FALSE
    /\ qkind = [r \in Sends |-> "none"]
    /\ qtoken = [r \in Sends |-> "none"]
    /\ qgate = [r \in Sends |-> 0]

\* A2AServer(agent_card, task_manager=..., auth_callback=...): the server is set up,
\* before it serves, with a card that declares authentication or not, with a
\* callback or none, and with a RedisTaskManager or the default InMemoryTaskManager.
ServerConstruct(a, c, m) ==
    /\ \A r \in Sends : qgate[r] = 0 /\ rpc[r] = "idle"
    /\ cfgAuth' = a
    /\ cfgCallback' = c
    /\ cfgRedis' = m
    /\ UNCHANGED <<qkind, qtoken, qgate, sendVars, rpcRest>>

\* "if self.agent_card.card.authentication and self.auth_callback": the requests
\* whose credentials are looked at.
AuthChecked == cfgAuth /\ cfgCallback

\* "not credentials or not self.auth_callback(credentials.credentials)" is false.
TokenAccepted(tok) == tok = "good"

\* _handle_jsonrpc_request up to the call of the method handler: the error code it
\* answers, or 1 when it calls the handler.
Gate(kind, tok) ==
    IF kind = "bad_json" THEN -32700
    ELSE IF kind = "bad_request" THEN -32600
    ELSE IF AuthChecked /\ ~TokenAccepted(tok) THEN -32001
    ELSE IF kind = "unknown_method" THEN -32601
    ELSE 1

\* A request arrives and is dispatched.
RpcDispatch(r) ==
    /\ qgate[r] = 0
    /\ rpc[r] = "idle"
    /\ \E kind \in RpcKinds, tok \in Tokens :
        /\ qkind' = [qkind EXCEPT ![r] = kind]
        /\ qtoken' = [qtoken EXCEPT ![r] = tok]
        /\ qgate' = [qgate EXCEPT ![r] = Gate(kind, tok)]
    /\ UNCHANGED <<cfgAuth, cfgCallback, cfgRedis, sendVars, rpcRest>>

\* A handler that does not validate its params.
ParamsUnchecked(r) == TRUE

\* SendMessageRequest.model_validate(params) succeeds.
ParamsValid(r) == qkind[r] = "ok"

\* _handle_send_message with params that do not validate: ValueError before
\* anything else is done, answered with error -32603.
SendRejectParams(r) ==
    /\ qgate[r] = 1
    /\ rpc[r] = "idle"
    /\ ~ParamsValid(r)
    /\ rpc' = [rpc EXCEPT ![r] = "replied"]
    /\ rresp' = [rresp EXCEPT ![r] = "Internal error: Invalid parameters"]
    /\ UNCHANGED <<rtask, rev, rraised, rresStatus, rheld, rpcVars, rpcRest>>

\* ============================================================ message/stream
InitStream ==
    /\ spc = [s \in Streams |-> "idle"]
    /\ stask = [s \in Streams |-> 0]
    /\ sresub = [s \in Streams |-> 0]
    /\ sframes = [s \in Streams |-> <<>>]
    /\ sconns = [t \in TaskIds |-> <<>>]
    /\ bgpc = [s \in Streams |-> "none"]
    /\ bgI = [s \in Streams |-> 0]
    /\ bgev = [s \in Streams |-> 0]

\* The SSE frame of the event the queue entry q refers to: model_dump of the event,
\* whose task is the live Task object, so the status is the one the task has now.
EventFrame(q) ==
    [ev |-> q.ev, status |-> tStatus[q.task], final |-> evLog[q.task][q.ev].final]

\* The keepalive frame "data: {}".
KeepaliveFrame == [ev |-> 0, status |-> "none", final |-> FALSE]

Keepalives(s) == Cardinality({i \in 1..Len(sframes[s]) : sframes[s][i].ev = 0})

\* A generator that never leaves its loop.
StreamNeverEnds(final) == FALSE

\* "if event.final: break" of generate_events.
StreamEnds(final) == final

\* _handle_stream_message up to the return of the StreamingResponse: a task under a
\* fresh id, the connection's queue in _streaming_connections, the update handler
\* registered (the handler of stream s is handler s), the background task created.
StreamAccept(s, r) ==
    /\ spc[s] = "idle"
    /\ sresub' = [sresub EXCEPT ![s] = r]
    /\ \E t \in TaskIds :
        /\ FreshTask(t)
        /\ tStatus' = [tStatus EXCEPT ![t] = "pending"]
        /\ sconns' = [sconns EXCEPT ![t] = Append(@, s)]
        /\ handlers' = [handlers EXCEPT ![t] = Append(@, s)]
        /\ stask' = [stask EXCEPT ![s] = t]
    /\ spc' = [spc EXCEPT ![s] = "accepted"]
    /\ bgpc' = [bgpc EXCEPT ![s] = "start"]
    /\ UNCHANGED <<tProgress, evLog, ready, hqueue, sframes, bgI, bgev>>
    /\ UNCHANGED streamRest

\* A message/stream request.
StreamOpen(s) == StreamAccept(s, 0)

\* tasks/resubscribe naming task r: an unknown task raises and nothing changes; for
\* a known one the request is handed to _handle_stream_message as it is.
Resubscribe(s) ==
    \E r \in TaskIds :
        IF tStatus[r] = "none" THEN UNCHANGED vars ELSE StreamAccept(s, r)

\* The response starts to iterate generate_events.
GenStart(s) ==
    /\ spc[s] = "accepted"
    /\ spc' = [spc EXCEPT ![s] = "open"]
    /\ UNCHANGED <<stask, sframes, sconns, bgpc, bgI, bgev>>
    /\ UNCHANGED <<sresub, tmVars, streamRest>>

\* The finally block of generate_events.
GenCleanup(s) ==
    /\ sconns' = [sconns EXCEPT ![stask[s]] = RemoveFirst(@, s)]
    /\ handlers' = [handlers EXCEPT ![stask[s]] = RemoveFirst(@, s)]

\* generate_events takes the next event from its queue and writes its frame; on a
\* final event it leaves the loop and cleans up.
GenNext(s) ==
    /\ spc[s] = "open"
    /\ hqueue[s] # <<>>
    /\ sframes' = [sframes EXCEPT ![s] = Append(@, EventFrame(Head(hqueue[s])))]
    /\ hqueue' = [hqueue EXCEPT ![s] = Tail(@)]
    /\ IF StreamEnds(EventFrame(Head(hqueue[s])).final)
       THEN /\ GenCleanup(s)
            /\ spc' = [spc EXCEPT ![s] = "ended"]
       ELSE UNCHANGED <<sconns, handlers, spc>>
    /\ UNCHANGED <<tStatus, tProgress, evLog, ready, stask, bgpc, bgI, bgev>>
    /\ UNCHANGED <<sresub, streamRest>>

\* The 30 s wait for an event times out: a keepalive frame.
GenKeepalive(s) ==
    /\ spc[s] = "open"
    /\ hqueue[s] = <<>>
    /\ Keepalives(s) < MaxKeepalives
    /\ sframes' = [sframes EXCEPT ![s] = Append(@, KeepaliveFrame)]
    /\ UNCHANGED <<spc, stask, sconns, bgpc, bgI, bgev>>
    /\ UNCHANGED <<sresub, tmVars, streamRest>>

\* The client goes away. A generator that is running is closed and its finally block
\* runs; one that was never started has no finally block to run.
ClientDisconnect(s) ==
    /\ spc[s] \in {"accepted", "open"}
    /\ IF spc[s] = "open" THEN GenCleanup(s) ELSE UNCHANGED <<sconns, handlers>>
    /\ spc' = [spc EXCEPT ![s] = "dropped"]
    /\ UNCHANGED <<tStatus, tProgress, evLog, ready, hqueue, stask, sframes, bgpc, bgI, bgev>>
    /\ UNCHANGED <<sresub, streamRest>>

\* _process_streaming_message: the first update, to WORKING.
BgStart(s) ==
    /\ bgpc[s] = "start"
    /\ TMUpdate(stask[s], "working", NoProgress, FALSE)
    /\ bgev' = [bgev EXCEPT ![s] = Len(evLog[stask[s]]) + 1]
    /\ bgpc' = [bgpc EXCEPT ![s] = "progress"]
    /\ UNCHANGED <<handlers, hqueue, spc, stask, sframes, sconns, bgI>>
    /\ UNCHANGED <<sresub, streamRest>>

\* One round of the loop: sleep, then update_task_status(WORKING, progress=(i+1)/5).
BgProgress(s) ==
    /\ bgpc[s] = "progress"
    /\ bgI[s] < ProgressSteps
    /\ GatherDone(stask[s], bgev[s])
    /\ TMUpdate(stask[s], "working", bgI[s] + 1, FALSE)
    /\ bgev' = [bgev EXCEPT ![s] = Len(evLog[stask[s]]) + 1]
    /\ bgI' = [bgI EXCEPT ![s] = @ + 1]
    /\ UNCHANGED <<handlers, hqueue, spc, stask, sframes, sconns, bgpc>>
    /\ UNCHANGED <<sresub, streamRest>>

\* After the loop: _process_message returns and the task is set COMPLETED, final.
BgComplete(s) ==
    /\ bgpc[s] = "progress"
    /\ bgI[s] = ProgressSteps
    /\ GatherDone(stask[s], bgev[s])
    /\ TMUpdate(stask[s], "completed", NoProgress, TRUE)
    /\ bgev' = [bgev EXCEPT ![s] = Len(evLog[stask[s]]) + 1]
    /\ bgpc' = [bgpc EXCEPT ![s] = "done"]
    /\ UNCHANGED <<handlers, hqueue, spc, stask, sframes, sconns, bgI>>
    /\ UNCHANGED <<sresub, streamRest>>

\* After the loop: _process_message raises and the except branch sets FAILED, final.
BgFail(s) ==
    /\ bgpc[s] = "progress"
    /\ bgI[s] = ProgressSteps
    /\ GatherDone(stask[s], bgev[s])
    /\ TMUpdate(stask[s], "failed", NoProgress, TRUE)
    /\ bgev' = [bgev EXCEPT ![s] = Len(evLog[stask[s]]) + 1]
    /\ bgpc' = [bgpc EXCEPT ![s] = "done"]
    /\ UNCHANGED <<handlers, hqueue, spc, stask, sframes, sconns, bgI>>
    /\ UNCHANGED <<sresub, streamRest>>

\* ===================================================== InMemoryMessageBroker
NoPub == [type |-> 0, v |-> 0, i |-> 0, orphan |-> FALSE, list |-> <<>>, after |-> {},
          live |-> {}]

InitBroker ==
    /\ bRunning = FALSE
    /\ subs = [e \in EventTypes |-> <<>>]
    /\ pub = NoPub
    /\ pubCount = 0
    /\ subCalls = 0
    /\ unsubCalls = 0
    /\ unsubbed = {}
    /\ delivered = [h \in BHandlers |-> <<>>]

\* start()
BrokerStart ==
    /\ bRunning' = TRUE
    /\ UNCHANGED <<subs, pub, pubCount, subCalls, unsubCalls, unsubbed, delivered>>
    /\ UNCHANGED brokerRest

\* stop(): _subscribers.clear() empties the dictionary; a publish_event that is
\* iterating keeps the list object it started with, which nothing else refers to now.
BrokerStop ==
    /\ bRunning' = FALSE
    /\ subs' = [e \in EventTypes |-> <<>>]
    /\ pub' = IF pub # NoPub /\ ~pub.orphan
              THEN [pub EXCEPT !.orphan = TRUE, !.list = subs[pub.type]]
              ELSE pub
    /\ UNCHANGED <<pubCount, subCalls, unsubCalls, unsubbed, delivered>>
    /\ UNCHANGED brokerRest

\* subscribe_to_events(e, h): append, whether or not h is already in the list.
Subscribe(e, h) ==
    /\ subCalls < MaxSubs
    /\ subCalls' = subCalls + 1
    /\ subs' = [subs EXCEPT ![e] = Append(@, h)]
    /\ unsubbed' = unsubbed \ {<<e, h>>}
    /\ pub' = IF pub.type = e THEN [pub EXCEPT !.after = @ \ {h}] ELSE pub
    /\ UNCHANGED <<bRunning, pubCount, unsubCalls, delivered>>
    /\ UNCHANGED brokerRest

\* unsubscribe_from_events(e, h): list.remove(h) takes out the first occurrence; an
\* unknown event type and a handler that is not in the list are ignored.
Unsubscribe(e, h) ==
    /\ unsubCalls < MaxUnsubs
    /\ unsubCalls' = unsubCalls + 1
    /\ subs' = [subs EXCEPT ![e] = RemoveFirst(@, h)]
    /\ unsubbed' = unsubbed \cup {<<e, h>>}
    /\ pub' = IF pub.type = e THEN [pub EXCEPT !.live = @ \ {h}] ELSE pub
    /\ UNCHANGED <<bRunning, pubCount, subCalls, delivered>>
    /\ UNCHANGED brokerRest

\* A call that the handler sees before the calls made earlier.
InvokeNewestFirst(h, e, v, stale) ==
    delivered' = [delivered EXCEPT ![h] = <<[type |-> e, v |-> v, stale |-> stale]>> \o @]

\* The call handler(event_type, data) made by the v-th publish_event; stale tells
\* that the publish began after an unsubscribe of h that no subscribe followed.
Invoke(h, e, v, stale) ==
    delivered' = [delivered EXCEPT ![h] = Append(@, [type |-> e, v |-> v, stale |-> stale])]

\* publish_event(e, v) up to its first suspension: nothing when the broker is not
\* running or nobody is subscribed, else the call of the first handler of the list.
PublishStart(e) ==
    /\ pub = NoPub
    /\ pubCount < MaxPublishes
    /\ pubCount' = pubCount + 1
    /\ IF bRunning /\ subs[e] # <<>>
       THEN /\ Invoke(subs[e][1], e, pubCount + 1, <<e, subs[e][1]>> \in unsubbed)
            /\ pub' = [type |-> e, v |-> pubCount + 1, i |-> 2, orphan |-> FALSE,
                       list |-> <<>>, after |-> {h \in BHandlers : <<e, h>> \in unsubbed},
                       live |-> {subs[e][k] : k \in 1..Len(subs[e])}]
       ELSE UNCHANGED <<pub, delivered>>
    /\ UNCHANGED <<bRunning, subs, subCalls, unsubCalls, unsubbed>>
    /\ UNCHANGED brokerRest

\* The subscribers of the first event type, whatever the type published.
FirstTypeList == IF pub.orphan THEN pub.list ELSE subs[1]

\* The list a publish_event in progress iterates over: _subscribers.get(event_type, []).
\* pub.live are the handlers that were in it when the publish began and for which
\* unsubscribe was not called since.
PubList == IF pub.orphan THEN pub.list ELSE subs[pub.type]

\* The for loop of publish_event goes on after a handler returned: the list iterator
\* reads the next index of the list as it is now, and the loop ends when the index
\* is past the end.
PublishStep ==
    /\ pub # NoPub
    /\ IF pub.i <= Len(PubList)
       THEN /\ Invoke(PubList[pub.i], pub.type, pub.v,
                      PubList[pub.i] \in pub.after /\ <<pub.type, PubList[pub.i]>> \in unsubbed)
            /\ pub' = [pub EXCEPT !.i = @ + 1]
       ELSE /\ pub' = NoPub
            /\ UNCHANGED delivered
    /\ UNCHANGED <<bRunning, subs, pubCount, subCalls, unsubCalls, unsubbed>>
    /\ UNCHANGED brokerRest

\* ============================================================= MessageBroker
Listeners == 1..MaxListeners
NoListener == [ch |-> 0, pc |-> "none", cancel |-> FALSE]

InitMB ==
    /\ mbRunning = FALSE
    /\ mbKeys = {}
    /\ mbSubs = [ch \in EventTypes |-> {}]
    /\ mbTasks = [ch \in EventTypes |-> 0]
    /\ listeners = [l \in Listeners |-> NoListener]
    /\ mbStopped = FALSE

\* A removal from _subscription_tasks that leaves the task running.
LeaveListener(ls, l) == ls

\* task.cancel()
CancelListener(ls, l) == [ls EXCEPT ![l].cancel = TRUE]

\* The listener tasks that are running and were not cancelled.
LiveListeners(ch) ==
    {l \in Listeners : /\ listeners[l].ch = ch
                       /\ listeners[l].pc \in {"created", "listening"}
                       /\ ~listeners[l].cancel}

\* start(): the two Redis clients are made and _running is set.
MBStart ==
    /\ mbRunning' = TRUE
    /\ UNCHANGED <<mbKeys, mbSubs, mbTasks, listeners, mbStopped>>
    /\ UNCHANGED mbRest

\* stop(): _running is cleared and every task in _subscription_tasks is cancelled;
\* neither _subscription_tasks nor _subscribers is emptied.
MBStop ==
    /\ mbRunning' = FALSE
    /\ listeners' = [l \in Listeners |->
                        IF \E ch \in EventTypes : mbTasks[ch] = l
                        THEN [listeners[l] EXCEPT !.cancel = TRUE]
                        ELSE listeners[l]]
    /\ mbStopped' = TRUE
    /\ UNCHANGED <<mbKeys, mbSubs, mbTasks>>
    /\ UNCHANGED mbRest

\* subscribe_to_events(event_type, h) on a running broker (one that is not running
\* raises RuntimeError): a channel that is not a key of _subscribers gets an empty
\* set and a new listener task, recorded in _subscription_tasks; h is added.
MBSubscribe(ch, h) ==
    /\ mbRunning
    /\ IF ch \notin mbKeys
       THEN \E l \in Listeners :
                /\ listeners[l].pc = "none"
                /\ \A k \in Listeners : k < l => listeners[k].pc # "none"
                /\ listeners' = [listeners EXCEPT ![l] =
                                    [ch |-> ch, pc |-> "created", cancel |-> FALSE]]
                /\ mbTasks' = [mbTasks EXCEPT ![ch] = l]
       ELSE UNCHANGED <<listeners, mbTasks>>
    /\ mbKeys' = mbKeys \cup {ch}
    /\ mbSubs' = [mbSubs EXCEPT ![ch] = @ \cup {h}]
    /\ UNCHANGED <<mbRunning, mbStopped>>
    /\ UNCHANGED mbRest

\* unsubscribe_from_events(event_type, h): h is discarded from the channel's set; a
\* set that became empty is deleted with its key, and the channel's listener task is
\* cancelled and deleted from _subscription_tasks. An unknown channel is ignored.
MBUnsubscribe(ch, h) ==
    /\ ch \in mbKeys
    /\ mbSubs' = [mbSubs EXCEPT ![ch] = @ \ {h}]
    /\ IF mbSubs[ch] \ {h} = {}
       THEN /\ mbKeys' = mbKeys \ {ch}
            /\ IF mbTasks[ch] # 0
               THEN /\ listeners' = CancelListener(listeners, mbTasks[ch])
                    /\ mbTasks' = [mbTasks EXCEPT ![ch] = 0]
               ELSE UNCHANGED <<listeners, mbTasks>>
       ELSE UNCHANGED <<mbKeys, listeners, mbTasks>>
    /\ UNCHANGED <<mbRunning, mbStopped>>
    /\ UNCHANGED mbRest

\* _subscription_loop starts to run: pubsub.subscribe(channel), then it waits in
\* pubsub.listen().
ListenerStart(l) ==
    /\ listeners[l].pc = "created"
    /\ ~listeners[l].cancel
    /\ listeners' = [listeners EXCEPT ![l].pc = "listening"]
    /\ UNCHANGED <<mbRunning, mbKeys, mbSubs, mbTasks, mbStopped>>
    /\ UNCHANGED mbRest

\* The cancellation reaches the task: one that never ran is dropped, one that waits
\* gets CancelledError at its await, which the loop catches, and ends. (The loop's
\* other exit, "if not self._running: break", is never taken first: stop() cancels
\* every recorded task in the step that clears _running.)
ListenerCancelled(l) ==
    /\ listeners[l].pc \in {"created", "listening"}
    /\ listeners[l].cancel
    /\ listeners' = [listeners EXCEPT ![l].pc = "done"]
    /\ UNCHANGED <<mbRunning, mbKeys, mbSubs, mbTasks, mbStopped>>
    /\ UNCHANGED mbRest

\* ================================================================ watch mode
\* AgentStatus (opencode_bridge.py:33-40)
AgentStatus == {"idle", "running", "busy", "error", "stopped", "watching"}

NoLoop == [cb |-> 0, pc |-> "none", task |-> 0, cancel |-> FALSE]
NoStart == [pc |-> "idle", cb |-> 0]
NoStop == [pc |-> "idle", cb |-> 0, loop |-> 0]

InitWatch ==
    /\ cbStatus = [c \in Codebases |-> "idle"]
    /\ cbPort = [c \in Codebases |-> FALSE]
    /\ cbWatch = [c \in Codebases |-> FALSE]
    /\ watchRec = [c \in Codebases |-> 0]
    /\ loops = [l \in Loops |-> NoLoop]
    /\ starts = [k \in StartCalls |-> NoStart]
    /\ stopcall = NoStop
    /\ stopped = {}

\* The watch loops that are running: created, and neither returned nor cancelled.
Running(c) == {l \in Loops : loops[l].cb = c /\ loops[l].pc \in {"sleep", "exec"}}

\* "codebase.watch_mode = True ... self._watch_tasks[codebase_id] = watch_task":
\* the part of start_watch_mode after the server is known to run, for call k on
\* codebase c. asyncio.create_task makes a new watch loop l.
WatchOn(k, c) ==
    \E l \in Loops :
        /\ loops[l] = NoLoop
        /\ \A m \in Loops : m < l => loops[m] # NoLoop
        /\ cbWatch' = [cbWatch EXCEPT ![c] = TRUE]
        /\ cbStatus' = [cbStatus EXCEPT ![c] = "watching"]
        /\ loops' = [loops EXCEPT ![l] = [NoLoop EXCEPT !.cb = c, !.pc = "sleep"]]
        /\ watchRec' = [watchRec EXCEPT ![c] = l]
        /\ starts' = [starts EXCEPT ![k] = [pc |-> "true", cb |-> c]]

\* start_watch_mode(c) up to its first suspension or its return: True at once when
\* c is in _watch_tasks; else _start_opencode_server when the codebase has no port
\* or is IDLE or STOPPED, which starts the process, sets the port and RUNNING and
\* sleeps 2 seconds; else the watch loop is started.
StartWatchMode(k) ==
    /\ starts[k].pc = "idle"
    /\ \E c \in Codebases :
        /\ stopped' = stopped \ {c}
        /\ IF watchRec[c] # 0
           THEN /\ starts' = [starts EXCEPT ![k] = [pc |-> "true", cb |-> c]]
                /\ UNCHANGED <<cbStatus, cbPort, cbWatch, watchRec, loops>>
           ELSE IF ~cbPort[c] \/ cbStatus[c] \in {"idle", "stopped"}
           THEN /\ cbPort' = [cbPort EXCEPT ![c] = TRUE]
                /\ cbStatus' = [cbStatus EXCEPT ![c] = "running"]
                /\ starts' = [starts EXCEPT ![k] = [pc |-> "sleep", cb |-> c]]
                /\ UNCHANGED <<cbWatch, watchRec, loops>>
           ELSE /\ WatchOn(k, c)
                /\ UNCHANGED cbPort
    /\ UNCHANGED <<stopcall, bridgeVars, watchRest>>

\* start_watch_mode after the sleep of _start_opencode_server: the process has
\* exited (RuntimeError, ERROR, return False) or it runs and the loop is started.
StartWatchResume(k) ==
    /\ starts[k].pc = "sleep"
    /\ \/ /\ cbStatus' = [cbStatus EXCEPT ![starts[k].cb] = "error"]
          /\ starts' = [starts EXCEPT ![k].pc = "false"]
          /\ UNCHANGED <<cbWatch, watchRec, loops>>
       \/ WatchOn(k, starts[k].cb)
    /\ UNCHANGED <<cbPort, stopcall, stopped, bridgeVars, watchRest>>

\* "codebase.watch_mode = False ... return True" of stop_watch_mode(c).
WatchOff(c) ==
    /\ cbWatch' = [cbWatch EXCEPT ![c] = FALSE]
    /\ cbStatus' = [cbStatus EXCEPT ![c] = IF cbPort[c] THEN "running" ELSE "idle"]
    /\ stopped' = stopped \cup {c}

\* stop_watch_mode(c) up to its suspension or its return: the loop recorded for c is
\* cancelled and awaited; with none recorded the call goes on to its end.
StopWatchMode ==
    /\ stopcall = NoStop
    /\ \E c \in Codebases :
        IF watchRec[c] # 0
        THEN /\ loops' = [loops EXCEPT ![watchRec[c]].cancel = TRUE]
             /\ stopcall' = [pc |-> "await", cb |-> c, loop |-> watchRec[c]]
             /\ UNCHANGED <<cbStatus, cbWatch, stopped>>
        ELSE /\ WatchOff(c)
             /\ UNCHANGED <<loops, stopcall>>
    /\ UNCHANGED <<cbPort, watchRec, starts, bridgeVars, watchRest>>

\* stop_watch_mode after "await watch_task": the awaited loop has ended; its entry
\* is deleted from _watch_tasks.
StopWatchResume ==
    /\ stopcall.pc = "await"
    /\ loops[stopcall.loop].pc = "done"
    /\ watchRec' = [watchRec EXCEPT ![stopcall.cb] = 0]
    /\ WatchOff(stopcall.cb)
    /\ stopcall' = NoStop
    /\ UNCHANGED <<cbPort, loops, starts, bridgeVars, watchRest>>

\* _watch_loop: get_next_pending_task finds task t and _execute_task begins: the
\* task is RUNNING with started_at set, the codebase BUSY. Nothing is saved.
WatchLoopTake(l) ==
    /\ loops[l].pc = "sleep"
    /\ ~loops[l].cancel
    /\ GetNextPendingTask(loops[l].cb) # 0
    /\ LET t == GetNextPendingTask(loops[l].cb) IN
        /\ atStatus' = [atStatus EXCEPT ![t] = "running"]
        /\ atStarted' = [atStarted EXCEPT ![t] = now]
        /\ loops' = [loops EXCEPT ![l].pc = "exec", ![l].task = t]
    /\ cbStatus' = [cbStatus EXCEPT ![loops[l].cb] = "busy"]
    /\ UNCHANGED <<atFields, atCompleted, atResult, atSaved, cancelLog, now, wLastSeen,
                   wpc, wlist, walive, wresp>>
    /\ UNCHANGED <<cbPort, cbWatch, watchRec, starts, stopcall, stopped, watchRest>>

\* "finally:" of _execute_task: the codebase is WATCHING again when watch_mode is
\* set, else RUNNING.
Restored(c) == [cbStatus EXCEPT ![c] = IF cbWatch[c] THEN "watching" ELSE "running"]

\* The rest of _execute_task: the agent run ends with the task COMPLETED (the text
\* of the last message, of length n, cut to 5000 characters as result; no result
\* without a message) or FAILED, completed_at set, or _wait_for_agent_completion
\* returns at once (no session id) and the task stays RUNNING; then the finally
\* block. Nothing is saved.
WatchLoopFinish(l) ==
    /\ loops[l].pc = "exec"
    /\ ~loops[l].cancel
    /\ \E s \in {"completed", "failed", "running"}, n \in ResultLens \cup {0} :
        /\ s # "completed" => n = 0
        /\ atStatus' = [atStatus EXCEPT ![loops[l].task] = s]
        /\ atCompleted' = IF s # "running"
                          THEN [atCompleted EXCEPT ![loops[l].task] = now]
                          ELSE atCompleted
        /\ atResult' = [atResult EXCEPT ![loops[l].task] = IF n # 0 THEN Truncated(n) ELSE @]
    /\ cbStatus' = Restored(loops[l].cb)
    /\ loops' = [loops EXCEPT ![l].pc = "sleep", ![l].task = 0]
    /\ UNCHANGED <<atFields, atStarted, atSaved, cancelLog, now, wLastSeen, wpc, wlist,
                   walive, wresp>>
    /\ UNCHANGED <<cbPort, cbWatch, watchRec, starts, stopcall, stopped, watchRest>>

\* CancelledError reaches the loop at the await it is suspended in: in the sleep the
\* loop ends; inside _execute_task the finally block runs first and the task stays
\* as it is.
WatchLoopCancelled(l) ==
    /\ loops[l].pc \in {"sleep", "exec"}
    /\ loops[l].cancel
    /\ cbStatus' = IF loops[l].pc = "exec" THEN Restored(loops[l].cb) ELSE cbStatus
    /\ loops' = [loops EXCEPT ![l].pc = "done"]
    /\ UNCHANGED <<cbPort, cbWatch, watchRec, starts, stopcall, stopped, bridgeVars,
                   watchRest>>

\* ========================================================= codebase registry
InitReg == cbGone = {}

\* unregister_codebase(c) of a registered codebase: the entry is deleted from
\* _codebases, and _delete_codebase deletes the codebase's row and the rows of its
\* tasks. _tasks, _codebase_tasks and _watch_tasks are not touched. (The stop_agent
\* task it may create finds no codebase any more and returns False.)
UnregisterCodebase(c) ==
    /\ c \notin cbGone
    /\ cbGone' = cbGone \cup {c}
    /\ atSaved' = [t \in ATaskIds |-> IF atFields[t].codebase = c THEN NoRow ELSE atSaved[t]]
    /\ UNCHANGED <<atStatus, atFields, atStarted, atCompleted, atResult, cancelLog, now,
                   wLastSeen, wpc, wlist, walive, wresp>>
    /\ UNCHANGED <<watchVars, regRest>>

\* create_task for the first codebase while it is registered (None afterwards).
CreateForRegistered == 1 \notin cbGone /\ BridgeCreateTask

\* start_watch_mode(c) for a registered codebase (False for another).
StartWatchRegistered(k) == StartWatchMode(k) /\ starts'[k].cb \notin cbGone

\* _watch_loop's _execute_task for a codebase that is registered.
WatchLoopTakeRegistered(l) == loops[l].cb \notin cbGone /\ WatchLoopTake(l)

\* _watch_loop of a codebase that is no longer in _codebases: the loop runs on,
\* get_next_pending_task finds task t, and _execute_task sets it FAILED ("Codebase
\* not found") and returns; nothing is saved.
WatchLoopTakeGone(l) ==
    /\ loops[l].pc = "sleep"
    /\ ~loops[l].cancel
    /\ loops[l].cb \in cbGone
    /\ GetNextPendingTask(loops[l].cb) # 0
    /\ atStatus' = [atStatus EXCEPT ![GetNextPendingTask(loops[l].cb)] = "failed"]
    /\ UNCHANGED <<atFields, atStarted, atCompleted, atResult, atSaved, cancelLog, now,
                   wLastSeen, wpc, wlist, walive, wresp>>
    /\ UNCHANGED <<watchVars, cbGone, regRest>>

\* =========================================== KeycloakAuthService, auth API
Users == 1..MaxUsers
Logins == 1..MaxLogins
\* no credentials in the request
NoToken == 0
\* get_current_user returns None
NoUser == 0
Endpoints == {"sync", "codebases", "agent-sessions"}
NoResp == [user |-> NoUser, uid |-> 0, body |-> <<>>, blind |-> <<>>]

InitAuth ==
    /\ usess = [i \in Logins |-> [user |-> NoUser, state |-> "none"]]
    /\ tokExpired = {}
    /\ uassoc = [u \in Users |-> {}]
    /\ uagent = [u \in Users |-> 0]
    /\ authResp = NoResp

\* validate_token(tok): jwt.decode checks the signature against the JWKS, the issuer
\* and exp; it holds for every token Keycloak issued that has not expired.
ValidateToken(tok) == tok \in Logins /\ usess[tok].state # "none" /\ tok \notin tokExpired

\* get_session_by_token(tok): the user of a session in _sessions that has this access
\* token and is_valid() (expires_at, set from the token's expires_in, not passed).
SessionByToken(tok) ==
    IF tok \in Logins /\ usess[tok].state = "active" /\ tok \notin tokExpired
    THEN usess[tok].user ELSE NoUser

\* get_current_user for a request with bearer token tok: None without credentials,
\* the stored session's user, else a temporary UserSession made from the payload of
\* a token that validates, else None.
GetCurrentUser(tok) ==
    IF tok = NoToken THEN NoUser
    ELSE IF SessionByToken(tok) # NoUser THEN SessionByToken(tok)
    ELSE IF ValidateToken(tok) THEN usess[tok].user
    ELSE NoUser

\* require_auth: 401 unless get_current_user returns a user.
RequireAuth(tok) == GetCurrentUser(tok) # NoUser

\* POST /v1/auth/login (authenticate_password) of user u: Keycloak issues a token and
\* a UserSession is stored under a fresh session id.
Login(u) ==
    /\ \E i \in Logins :
        /\ usess[i].state = "none"
        /\ \A j \in Logins : j < i => usess[j].state # "none"
        /\ usess' = [usess EXCEPT ![i] = [user |-> u, state |-> "active"]]
    /\ UNCHANGED <<tokExpired, uassoc, uagent, authResp>>
    /\ UNCHANGED authRest

\* POST /v1/auth/logout {session_id: i}: _sessions.pop(i) and a logout request to
\* Keycloak with the refresh token. The endpoint asks for no credentials.
Logout(i) ==
    /\ usess[i].state = "active"
    /\ usess' = [usess EXCEPT ![i].state = "out"]
    /\ UNCHANGED <<tokExpired, uassoc, uagent, authResp>>
    /\ UNCHANGED authRest

\* The exp of access token i passes.
TokenExpires(i) ==
    /\ usess[i].state # "none"
    /\ i \notin tokExpired
    /\ tokExpired' = tokExpired \cup {i}
    /\ UNCHANGED <<usess, uassoc, uagent, authResp>>
    /\ UNCHANGED authRest

\* POST /v1/auth/user/{uid}/codebases with token tok: require_auth, 403 for another
\* user, else the codebase is associated (once).
AssociateCodebase(tok, uid, c) ==
    /\ RequireAuth(tok)
    /\ GetCurrentUser(tok) = uid
    /\ uassoc' = [uassoc EXCEPT ![uid] = @ \cup {c}]
    /\ UNCHANGED <<usess, tokExpired, uagent, authResp>>
    /\ UNCHANGED authRest

\* POST /v1/auth/user/{uid}/agent-sessions with token tok.
CreateAgentSession(tok, uid) ==
    /\ RequireAuth(tok)
    /\ GetCurrentUser(tok) = uid
    /\ uagent[uid] < MaxAgentSessions
    /\ uagent' = [uagent EXCEPT ![uid] = @ + 1]
    /\ UNCHANGED <<usess, tokExpired, uassoc, authResp>>
    /\ UNCHANGED authRest

\* What the three read endpoints return for user uid from the associations assoc
\* and the agent sessions agents: sync_session_state, get_user_codebases,
\* get_user_agent_sessions.
UserData(ep, uid, assoc, agents) ==
    [status |-> 200,
     codebases |-> IF ep \in {"sync", "codebases"} THEN assoc[uid] ELSE {},
     agents |-> IF ep \in {"sync", "agent-sessions"} THEN agents[uid] ELSE 0]

Forbidden == [status |-> 403, codebases |-> {}, agents |-> 0]

\* GET /v1/auth/sync?user_id=uid, GET /v1/auth/user/{uid}/codebases and
\* GET /v1/auth/user/{uid}/agent-sessions for a caller get_current_user resolved to
\* user: "if user and user.user_id != user_id: raise 403", else the user's data.
ReadUser(ep, user, uid, assoc, agents) ==
    IF user # NoUser /\ user # uid THEN Forbidden ELSE UserData(ep, uid, assoc, agents)

\* One of the read requests, with token tok or none. blind is the answer the same
\* request gets when user uid has no codebases and no agent sessions.
GetUserData(ep, tok, uid) ==
    /\ authResp' = [user |-> GetCurrentUser(tok), uid |-> uid,
                    body |-> ReadUser(ep, GetCurrentUser(tok), uid, uassoc, uagent),
                    blind |-> ReadUser(ep, GetCurrentUser(tok), uid,
                                       [uassoc EXCEPT ![uid] = {}],
                                       [uagent EXCEPT ![uid] = 0])]
    /\ UNCHANGED <<usess, tokExpired, uassoc, uagent>>
    /\ UNCHANGED authRest

\* ======================================== RedisTaskManager beside TaskManager
\* Python's None, where a string is expected.
PyNone == "<None>"
\* The titles callers pass to create_task.
Titles == {PyNone, "", "Message processing"}
\* The messages callers pass to update_task_status; 0 is message=None.
MessageArgs == 0..MaxMessages
\* The progress values callers pass to update_task_status, in units of
\* 1/ProgressSteps (so ProgressSteps + 1 is 1.2); NoProgress is progress=None.
ProgressArgs == {NoProgress, 1, 3, ProgressSteps + 1}
\* The statuses callers pass to update_task_status.
StatusArgs == {"working", "completed"}

\* A Task object: its status, title, progress and message log. A log of None is
\* written as the empty log.
NoTask == [status |-> "none", title |-> PyNone, progress |-> 0, messages |-> <<>>]
\* Task(id=task_id, status=TaskStatus.PENDING, ..., title=title) of create_task
NewTask(title) ==
    [status |-> "pending", title |-> title, progress |-> 0, messages |-> <<>>]

\* No hash under the key: hgetall returns {}.
NoHash == [status |-> "none", title |-> "", progress |-> 0, messages |-> <<>>]

\* _serialize_task: "title": task.title or "", "progress": str(task.progress or 0.0),
\* "messages": json.dumps([... for msg in (task.messages or [])]).
SerializeTask(task) ==
    [status |-> task.status,
     title |-> IF task.title = PyNone THEN "" ELSE task.title,
     progress |-> task.progress,
     messages |-> task.messages]

\* _deserialize_task: title=title if title else None,
\* progress=float(data.get("progress", 0.0)), messages=messages if messages else None.
DeserializeTask(data) ==
    [status |-> data.status,
     title |-> IF data.title = "" THEN PyNone ELSE data.title,
     progress |-> data.progress,
     messages |-> data.messages]

NoCall ==
    [op |-> "idle", pc |-> "idle", t |-> 0, s |-> "none", msg |-> 0,
     prog |-> NoProgress, final |-> FALSE, task |-> NoTask]

InitStore ==
    /\ tMessages = [t \in TaskIds |-> <<>>]
    /\ kHash = [t \in TaskIds |-> NoHash]
    /\ kIdx = [s \in TaskStatus |-> {}]
    /\ kAll = {}
    /\ kEvLog = [t \in TaskIds |-> <<>>]
    /\ kcall = NoCall
    /\ kCalls = 0

\* A caller makes one call at a time, and the call is made on both managers.
CallAllowed == kcall = NoCall /\ kCalls < MaxCalls

\* create_task(title, task_id=t) on both managers. TaskManager.create_task is done
\* at once; RedisTaskManager.create_task has built its Task and is about to store it.
CallCreate ==
    /\ CallAllowed
    /\ \E t \in TaskIds, title \in Titles :
        /\ tStatus' = [tStatus EXCEPT ![t] = "pending"]
        /\ tProgress' = [tProgress EXCEPT ![t] = 0]
        /\ tMessages' = [tMessages EXCEPT ![t] = <<>>]
        /\ kcall' = [NoCall EXCEPT !.op = "create", !.pc = "hset", !.t = t,
                                   !.task = NewTask(title)]
    /\ kCalls' = kCalls + 1
    /\ UNCHANGED <<evLog, handlers, ready, hqueue, kHash, kIdx, kAll, kEvLog, storeRest>>

\* update_task_status(t, s, message, progress, final) on both managers.
\* TaskManager.update_task_status never looks at message but to put it in the event.
CallUpdateWith(t, s, msg, prog, final) ==
    /\ CallAllowed
    /\ IF tStatus[t] = "none"
       THEN UNCHANGED <<tStatus, tProgress, evLog, ready>>
       ELSE TMUpdate(t, s, prog, final)
    /\ kcall' = [NoCall EXCEPT !.op = "update", !.pc = "hgetall", !.t = t, !.s = s,
                               !.msg = msg, !.prog = prog, !.final = final]
    /\ kCalls' = kCalls + 1
    /\ UNCHANGED <<handlers, hqueue, tMessages, kHash, kIdx, kAll, kEvLog, storeRest>>

CallUpdate ==
    \E t \in TaskIds, s \in StatusArgs, msg \in MessageArgs, prog \in ProgressArgs,
       final \in BOOLEAN : CallUpdateWith(t, s, msg, prog, final)

\* cancel_task(t) on both managers: update_task_status(t, CANCELLED, final=True).
CallCancel == \E t \in TaskIds : CallUpdateWith(t, "cancelled", 0, NoProgress, TRUE)

\* delete_task(t) on both managers.
CallDelete ==
    /\ CallAllowed
    /\ \E t \in TaskIds :
        /\ tStatus' = [tStatus EXCEPT ![t] = "none"]
        /\ kcall' = [NoCall EXCEPT !.op = "delete", !.pc = "hgetall", !.t = t]
    /\ kCalls' = kCalls + 1
    /\ UNCHANGED <<tProgress, evLog, handlers, ready, hqueue, tMessages, kHash, kIdx,
                   kAll, kEvLog, storeRest>>

\* An update_task_status that notifies before it stores.
NotifyBeforeStore == <<"hgetall", "notify", "hset", "index", "idle">>

\* The awaits of RedisTaskManager.update_task_status, in program order: hgetall,
\* hset, srem/sadd on the status sets, _notify_handlers, return.
UpdateSteps == <<"hgetall", "hset", "index", "notify", "idle">>

\* The step that follows step pc of update_task_status.
AfterStep(pc) ==
    LET i == CHOOSE j \in 1..Len(UpdateSteps) : UpdateSteps[j] = pc
    IN  UpdateSteps[i + 1]

\* The call in progress has returned.
Returned(c) == IF c.pc = "idle" THEN NoCall ELSE c

\* RedisTaskManager.create_task: hset of the serialized task, then sadd to the set
\* of PENDING and to tasks:all.
RedisCreateStep ==
    /\ kcall.op = "create"
    /\ \/ /\ kcall.pc = "hset"
          /\ kHash' = [kHash EXCEPT ![kcall.t] = SerializeTask(kcall.task)]
          /\ kcall' = [kcall EXCEPT !.pc = "index"]
          /\ UNCHANGED <<kIdx, kAll>>
       \/ /\ kcall.pc = "index"
          /\ kIdx' = [kIdx EXCEPT !["pending"] = @ \cup {kcall.t}]
          /\ kAll' = kAll \cup {kcall.t}
          /\ kcall' = NoCall
          /\ UNCHANGED kHash
    /\ UNCHANGED <<tMessages, kEvLog, kCalls, tmVars, storeRest>>

\* "task.status = status ... task.messages.append(message)": the deserialized Task
\* after the changes update_task_status makes to it.
Updated(task, c) ==
    [task EXCEPT !.status = c.s,
                 !.progress = IF c.prog # NoProgress THEN c.prog ELSE @,
                 !.messages = IF c.msg # 0 THEN Append(@, c.msg) ELSE @]

\* RedisTaskManager.update_task_status, one await at a time. kcall.s holds the new
\* status until the hash is read and the task's old status from then on.
RedisUpdateStep ==
    /\ kcall.op = "update"
    /\ \/ /\ kcall.pc = "hgetall"
          /\ IF kHash[kcall.t] = NoHash
             THEN kcall' = NoCall
             ELSE kcall' = [kcall EXCEPT
                              !.pc = AfterStep("hgetall"),
                              !.s = DeserializeTask(kHash[kcall.t]).status,
                              !.task = Updated(DeserializeTask(kHash[kcall.t]), kcall)]
          /\ UNCHANGED <<kHash, kIdx, kEvLog>>
       \/ /\ kcall.pc = "hset"
          /\ kHash' = [kHash EXCEPT ![kcall.t] = SerializeTask(kcall.task)]
          /\ kcall' = Returned([kcall EXCEPT !.pc = AfterStep("hset")])
          /\ UNCHANGED <<kIdx, kEvLog>>
       \/ /\ kcall.pc = "index"
          /\ kIdx' = IF kcall.s # kcall.task.status
                     THEN [kIdx EXCEPT ![kcall.s] = @ \ {kcall.t},
                                       ![kcall.task.status] = @ \cup {kcall.t}]
                     ELSE kIdx
          /\ kcall' = Returned([kcall EXCEPT !.pc = AfterStep("index")])
          /\ UNCHANGED <<kHash, kEvLog>>
       \/ /\ kcall.pc = "notify"
          /\ kEvLog' = [kEvLog EXCEPT
                          ![kcall.t] = Append(@, NewEvent(kcall.task.status, kcall.final))]
          /\ kcall' = Returned([kcall EXCEPT !.pc = AfterStep("notify")])
          /\ UNCHANGED <<kHash, kIdx>>
    /\ UNCHANGED <<tMessages, kAll, kCalls, tmVars, storeRest>>

\* RedisTaskManager.delete_task: hgetall (False when there is no hash), srem from
\* the set of the stored status and from tasks:all, delete of the hash.
RedisDeleteStep ==
    /\ kcall.op = "delete"
    /\ \/ /\ kcall.pc = "hgetall"
          /\ IF kHash[kcall.t] = NoHash
             THEN kcall' = NoCall
             ELSE kcall' = [kcall EXCEPT !.pc = "index", !.s = kHash[kcall.t].status]
          /\ UNCHANGED <<kHash, kIdx, kAll>>
       \/ /\ kcall.pc = "index"
          /\ kIdx' = [kIdx EXCEPT ![kcall.s] = @ \ {kcall.t}]
          /\ kAll' = kAll \ {kcall.t}
          /\ kcall' = [kcall EXCEPT !.pc = "delete"]
          /\ UNCHANGED kHash
       \/ /\ kcall.pc = "delete"
          /\ kHash' = [kHash EXCEPT ![kcall.t] = NoHash]
          /\ kcall' = NoCall
          /\ UNCHANGED <<kIdx, kAll>>
    /\ UNCHANGED <<tMessages, kEvLog, kCalls, tmVars, storeRest>>

\* What a caller compares of a task: its status, progress and message log.
Seen(t, task) ==
    [id |-> t, status |-> task.status, progress |-> task.progress,
     messages |-> task.messages]

\* TaskManager.get_task(t); None is written as the view of NoTask.
MemGet(t) ==
    IF tStatus[t] = "none" THEN Seen(t, NoTask)
    ELSE Seen(t, [status |-> tStatus[t], progress |-> tProgress[t],
                  messages |-> tMessages[t]])

\* RedisTaskManager.get_task(t)
RedisGet(t) ==
    IF kHash[t] = NoHash THEN Seen(t, NoTask) ELSE Seen(t, DeserializeTask(kHash[t]))

\* TaskManager.list_tasks(status), "any" for status=None, as a set.
MemList(s) == {MemGet(t) : t \in {u \in TaskIds : /\ tStatus[u] # "none"
                                                  /\ s \in {"any", tStatus[u]}}}

\* RedisTaskManager.list_tasks(status): the ids of the status set, or of tasks:all,
\* and for each id that has a hash the task read from it.
RedisList(s) ==
    LET ids == IF s = "any" THEN kAll ELSE kIdx[s]
    IN  {RedisGet(t) : t \in {u \in ids : kHash[u] # NoHash}}

\* The task manager's status operations, called directly.
Next ==
    \/ TMCreateTask
    \/ TMCreateTaskWithId
    \/ TMUpdateTaskStatus
    \/ TMCancelTask

\* Update calls on tasks whose handlers return, raise or hang.
GatherNext ==
    \/ TMCreateTask
    \/ RegisterHandlerOfKind
    \/ UpdateCall
    \/ CallHandler
    \/ \E u \in 1..MaxUpdateCalls : UpdateReturn(u)

\* The Redis broker: start, stop, subscriptions and the listener tasks.
MBNext ==
    \/ MBStart
    \/ MBStop
    \/ \E ch \in EventTypes, h \in BHandlers : MBSubscribe(ch, h)
    \/ \E ch \in EventTypes, h \in BHandlers : MBUnsubscribe(ch, h)
    \/ \E l \in Listeners : ListenerStart(l)
    \/ \E l \in Listeners : ListenerCancelled(l)

\* Codebases with tasks and watch loops that are unregistered.
RegistryNext ==
    \/ CreateForRegistered
    \/ \E c \in Codebases : UnregisterCodebase(c)
    \/ \E k \in StartCalls : StartWatchRegistered(k)
    \/ \E k \in StartCalls : StartWatchResume(k)
    \/ \E l \in Loops : WatchLoopTakeRegistered(l)
    \/ \E l \in Loops : WatchLoopTakeGone(l)
    \/ \E l \in Loops : WatchLoopFinish(l)

\* Logins, logouts, token expiry and the per-user endpoints of the auth API.
AuthNext ==
    \/ \E u \in Users : Login(u)
    \/ \E i \in Logins : Logout(i)
    \/ \E i \in Logins : TokenExpires(i)
    \/ \E tok \in Logins, uid \in Users, c \in Codebases : AssociateCodebase(tok, uid, c)
    \/ \E tok \in Logins, uid \in Users : CreateAgentSession(tok, uid)
    \/ \E ep \in Endpoints, tok \in Logins \cup {NoToken}, uid \in Users :
        GetUserData(ep, tok, uid)

\* Workers that start, poll, execute tasks and are stopped.
AgentWorkerNext ==
    \/ BridgeCreateTask
    \/ \E w \in Workers : AWStart(w)
    \/ \E w \in Workers : AWStop(w)
    \/ \E w \in Workers : AWPoll(w)
    \/ \E w \in Workers : AWExit(w)
    \/ \E w \in Workers : AWBreak(w)
    \/ \E w \in Workers : AWClaim(w)
    \/ \E w \in Workers : AWFinish(w)

\* Concurrent coroutines updating tasks whose handlers come and go.
NotifyNext ==
    \/ TMCreateTask
    \/ TMUpdateTaskStatus
    \/ TMRegisterHandler
    \/ TMUnregisterHandler
    \/ RunHandler

\* message/send requests, tasks/cancel requests and the handlers of open connections.
SendNext ==
    \/ TMCancelTask
    \/ TMRegisterHandler
    \/ RunHandler
    \/ \E r \in Sends : SendStart(r)
    \/ \E r \in Sends : SendProcessed(r)
    \/ \E r \in Sends : SendHandlerRaises(r)
    \/ \E r \in Sends : SendReply(r)

\* message/stream requests, their background processing and tasks/cancel requests.
StreamNext ==
    \/ TMCancelTask
    \/ RunHandler
    \/ \E s \in Streams : StreamOpen(s)
    \/ \E s \in Streams : GenStart(s)
    \/ \E s \in Streams : GenNext(s)
    \/ \E s \in Streams : GenKeepalive(s)
    \/ \E s \in Streams : ClientDisconnect(s)
    \/ \E s \in Streams : BgStart(s)
    \/ \E s \in Streams : BgProgress(s)
    \/ \E s \in Streams : BgComplete(s)
    \/ \E s \in Streams : BgFail(s)

\* One publisher and the coroutines that start, stop, subscribe and unsubscribe.
BrokerNext ==
    \/ BrokerStart
    \/ BrokerStop
    \/ \E e \in EventTypes, h \in BHandlers : Subscribe(e, h)
    \/ \E e \in EventTypes, h \in BHandlers : Unsubscribe(e, h)
    \/ \E e \in EventTypes : PublishStart(e)
    \/ PublishStep

\* The same, with handlers that do not suspend: a publish_event runs to its end
\* before anything else does.
QuietBrokerNext ==
    \/ pub = NoPub /\ BrokerStart
    \/ pub = NoPub /\ BrokerStop
    \/ \E e \in EventTypes, h \in BHandlers : pub = NoPub /\ Subscribe(e, h)
    \/ \E e \in EventTypes, h \in BHandlers : pub = NoPub /\ Unsubscribe(e, h)
    \/ \E e \in EventTypes : PublishStart(e)
    \/ PublishStep

\* Tasks made and updated through the task manager, and streams opened on them
\* with tasks/resubscribe.
ResubNext ==
    \/ TMCreateTask
    \/ TMUpdateTaskStatus
    \/ RunHandler
    \/ \E s \in Streams : Resubscribe(s)
    \/ \E s \in Streams : GenStart(s)
    \/ \E s \in Streams : GenNext(s)
    \/ \E s \in Streams : ClientDisconnect(s)
    \/ \E s \in Streams : BgStart(s)
    \/ \E s \in Streams : BgProgress(s)
    \/ \E s \in Streams : BgComplete(s)

\* message/send requests as they pass the dispatcher, on servers set up with and
\* without authentication, over either task manager.
RpcNext ==
    \/ \E a \in BOOLEAN, c \in BOOLEAN, m \in BOOLEAN : ServerConstruct(a, c, m)
    \/ \E r \in Sends : RpcDispatch(r)
    \/ \E r \in Sends : SendRejectParams(r)
    \/ \E r \in Sends : qgate[r] = 1 /\ ParamsValid(r) /\ SendStart(r)
    \/ \E r \in Sends : SendProcessed(r)
    \/ \E r \in Sends : SendReply(r)

\* One caller's calls, made on a TaskManager and on a RedisTaskManager alike.
BackendNext ==
    \/ CallCreate
    \/ CallUpdate
    \/ CallCancel
    \/ CallDelete
    \/ RedisCreateStep
    \/ RedisUpdateStep
    \/ RedisDeleteStep

\* Watch mode switched on and off while tasks are queued for the codebases.
WatchNext ==
    \/ BridgeCreateTask
    \/ \E k \in StartCalls : StartWatchMode(k)
    \/ \E k \in StartCalls : StartWatchResume(k)
    \/ StopWatchMode
    \/ StopWatchResume
    \/ \E l \in Loops : WatchLoopTake(l)
    \/ \E l \in Loops : WatchLoopFinish(l)
    \/ \E l \in Loops : WatchLoopCancelled(l)

Init ==
    InitBridge /\ InitTM /\ InitSend /\ InitRpc /\ InitStream /\ InitBroker /\ InitStore
        /\ InitWatch /\ InitGather /\ InitMB /\ InitReg /\ InitAuth /\ InitAW

Spec == Init /\ [][Next]_vars

NotifySpec == Init /\ [][NotifyNext]_vars

SendSpec == Init /\ [][SendNext]_vars

BridgeSpec == Init /\ [][BridgeNext]_vars

LeaseSpec == Init /\ [][LeaseNext]_vars

QueueSpec == Init /\ [][QueueNext]_vars

StreamSpec == Init /\ [][StreamNext]_vars

ResubSpec == Init /\ [][ResubNext]_vars

RpcSpec == Init /\ [][RpcNext]_vars

BrokerSpec == Init /\ [][BrokerNext]_vars

QuietBrokerSpec == Init /\ [][QuietBrokerNext]_vars

BackendSpec == Init /\ [][BackendNext]_vars

WatchSpec == Init /\ [][WatchNext]_vars

\* StreamSpec under the scheduling of the asyncio event loop: a callback that is ready
\* is run, a coroutine whose await has completed is resumed, and a handler that has
\* returned a StreamingResponse has its body iterated. The client and the 30 s
\* timeout are under no obligation.
StreamFairness ==
    /\ WF_vars(RunHandler)
    /\ \A s \in Streams :
        /\ WF_vars(GenStart(s))
        /\ WF_vars(GenNext(s))
        /\ WF_vars(BgStart(s))
        /\ WF_vars(BgProgress(s))
        /\ WF_vars(BgComplete(s) \/ BgFail(s))

\* GatherSpec under the event loop's scheduling: a handler call that is ready is run
\* and a caller whose gather has completed is resumed.
GatherSpec ==
    /\ Init /\ [][GatherNext]_vars
    /\ WF_vars(CallHandler)
    /\ \A u \in 1..MaxUpdateCalls : WF_vars(UpdateReturn(u))

MBSpec == Init /\ [][MBNext]_vars

\* WatchSpec under the event loop's scheduling: an agent run comes to its end, a
\* cancellation reaches the loop it was sent to, and a stop_watch_mode whose awaited
\* loop has ended goes on.
WatchLiveSpec ==
    /\ WatchSpec
    /\ \A l \in Loops : WF_vars(WatchLoopFinish(l)) /\ WF_vars(WatchLoopCancelled(l))
    /\ WF_vars(StopWatchResume)

RegistrySpec == Init /\ [][RegistryNext]_vars

AuthSpec == Init /\ [][AuthNext]_vars

AgentWorkerSpec == Init /\ [][AgentWorkerNext]_vars

StreamLiveSpec == StreamSpec /\ StreamFairness

\* ==================================================================== claims

\* Worker w holds task t as its RUNNING task: its claim (PUT status=running) was
\* answered 200 and it has not yet reported the outcome.
HoldsRunning(w, t) ==
    /\ wpc[w] = "exec"
    /\ wlist[w] # <<>>
    /\ Head(wlist[w]) = t
    /\ wresp[w] = 200

\* C1: claim exclusivity - of the workers that claim the same PENDING AgentTask with
\* PUT status=running, at most one has its claim accepted and holds the task as its
\* RUNNING task.
ClaimExclusive ==
    \A t \in ATaskIds : Cardinality({w \in Workers : HoldsRunning(w, t)}) <= 1

\* The edges of the AgentTask state machine (spec 4.5); a claim may go from PENDING
\* to RUNNING directly, ASSIGNED being an optional lease state.
AgentTaskEdges ==
    {<<"none", "pending">>,
     <<"pending", "assigned">>, <<"pending", "running">>, <<"assigned", "running">>,
     <<"running", "completed">>, <<"running", "failed">>, <<"running", "cancelled">>,
     <<"pending", "cancelled">>, <<"assigned", "cancelled">>}

\* C3: every status change of an AgentTask follows an edge of the AgentTask state
\* machine; a COMPLETED, FAILED or CANCELLED task is never moved to another status.
AgentTaskStateMachine ==
    [][\A t \in ATaskIds :
          atStatus'[t] # atStatus[t] => <<atStatus[t], atStatus'[t]>> \in AgentTaskEdges]_vars

\* C4: lease recovery - a task whose worker died while holding it does not stay
\* RUNNING beyond the lease horizon after its last status update.
LeaseRecovered ==
    \A w \in Workers : \A t \in ATaskIds :
        (~walive[w] /\ HoldsRunning(w, t) /\ atStatus[t] = "running")
            => now - atStarted[t] <= LeaseHorizon

\* C2: terminal states are absorbing - once a task is COMPLETED, CANCELLED or FAILED
\* no operation changes its status.
TerminalAbsorbing ==
    [][\A t \in TaskIds : tStatus[t] \in Terminal => tStatus'[t] = tStatus[t]]_vars

\* C7: when _process_message raises during message/send, the RPC still returns a
\* result, and the task it carries is FAILED.
HandlerFailureSurfaced ==
    \A r \in Sends :
        (rraised[r] /\ rpc[r] = "replied")
            => (rresp[r] = "result" /\ rresStatus[r] = "failed")

\* C8: an event has final=true exactly when the status it sets is terminal.
FinalIffTerminal ==
    \A t \in TaskIds : \A i \in 1..Len(evLog[t]) :
        evLog[t][i].final <=> (evLog[t][i].status \in Terminal)

\* C9: the events of a task are numbered in the order their updates took the task
\* lock. A handler receives the events of a task in that order: what it has received
\* is ascending, and no call still waiting to run carries an earlier event of the
\* same task than one it has already received.
HandlerOrder ==
    \A h \in HandlerIds :
        /\ \A i, j \in 1..Len(hqueue[h]) :
              (i < j /\ hqueue[h][i].task = hqueue[h][j].task)
                  => hqueue[h][i].ev < hqueue[h][j].ev
        /\ \A k \in 1..Len(ready) : \A j \in 1..Len(hqueue[h]) :
              (ready[k].h = h /\ ready[k].task = hqueue[h][j].task)
                  => hqueue[h][j].ev < ready[k].ev

\* A handler has received the events of two updates of one task.
HandlerOrderWitness ==
    \E h \in HandlerIds : \E i, j \in 1..Len(hqueue[h]) :
        i < j /\ hqueue[h][i].task = hqueue[h][j].task

\* C5: once a task that a message/stream request is processing (its last event set
\* WORKING) is cancelled, the CANCELLED event is the task's last event and the task
\* stays CANCELLED.
CancelledStays ==
    \A t \in TaskIds : \A i \in 2..Len(evLog[t]) :
        ( /\ \E s \in Streams : stask[s] = t
          /\ evLog[t][i].status = "cancelled"
          /\ evLog[t][i-1].status = "working" )
            => (i = Len(evLog[t]) /\ tStatus[t] = "cancelled")

\* C6: among the frames of a stream at most one carries final=true, and it is the
\* last frame written: no event frame and no keepalive follows it.
OneFinalFrameLast ==
    \A s \in Streams : \A i \in 1..Len(sframes[s]) :
        sframes[s][i].final => i = Len(sframes[s])

\* A stream has written frames, stopped at a final one, and left a later event of
\* its task unread in the queue.
OneFinalFrameLastWitness ==
    \E s \in Streams :
        /\ spc[s] = "ended"
        /\ Len(sframes[s]) >= 2
        /\ sframes[s][Len(sframes[s])].final
        /\ hqueue[s] # <<>>

\* C10: no handler is called by a publish_event that began after unsubscribe of that
\* handler from the event type had returned (and no subscribe followed it).
UnsubscribeStopsDelivery ==
    \A h \in BHandlers : \A i \in 1..Len(delivered[h]) : ~delivered[h][i].stale

\* C11: what a handler has received of one event type is in the order of the
\* publish_event calls: a later call never precedes an earlier one.
PublishOrder ==
    \A h \in BHandlers : \A i, j \in 1..Len(delivered[h]) :
        (i < j /\ delivered[h][i].type = delivered[h][j].type)
            => delivered[h][i].v <= delivered[h][j].v

\* A handler has received two successive publications of one event type.
PublishOrderWitness ==
    \E h \in BHandlers : \E i, j \in 1..Len(delivered[h]) :
        /\ i < j
        /\ delivered[h][i].type = delivered[h][j].type
        /\ delivered[h][i].v < delivered[h][j].v

\* The number of calls handler h received from the v-th publish_event, in state d
\* of the handlers' records, and the number of times h is in the list q.
Calls(d, h, v) == Cardinality({i \in 1..Len(d[h]) : d[h][i].v = v})
Occurrences(q, h) == Cardinality({i \in 1..Len(q) : q[i] = h})

AtLeastOnce ==
    [][(pub # NoPub /\ pub' = NoPub) =>
          \A h \in pub.live : Calls(delivered', h, pub.v) >= 1]_vars

\* C14: a cancel_task call returns True exactly when the task was PENDING or
\* ASSIGNED, and then the task is CANCELLED; a call that returns False (the task
\* RUNNING, COMPLETED, FAILED, CANCELLED or unknown) leaves the task's status, its
\* completed_at and its saved row as they were.
CancelOnlyWaiting ==
    [][Len(cancelLog') > Len(cancelLog) =>
          LET c == cancelLog'[Len(cancelLog')]
              t == c.task
          IN /\ c.was = atStatus[t]
             /\ c.ok <=> atStatus[t] \in {"pending", "assigned"}
             /\ c.ok => atStatus'[t] = "cancelled"
             /\ ~c.ok => /\ atStatus'[t] = atStatus[t]
                         /\ atCompleted'[t] = atCompleted[t]
                         /\ atSaved'[t] = atSaved[t]]_vars

\* One cancel_task call was accepted, and one on a RUNNING task was refused.
CancelOnlyWaitingWitness ==
    \E i, j \in 1..Len(cancelLog) :
        /\ cancelLog[i].ok
        /\ ~cancelLog[j].ok /\ cancelLog[j].was = "running"

\* C15: list_tasks returns the tasks that pass its filters, each once, in the order
\* (priority descending, created_at ascending); get_next_pending_task(c) returns
\* None exactly when c has no PENDING task, and else a PENDING task of c that no
\* other PENDING task of c precedes in that order.
Matches(t, c, s) ==
    /\ atStatus[t] # "none"
    /\ c # 0 => atFields[t].codebase = c
    /\ s # "any" => atStatus[t] = s
Precedes(a, b) ==
    \/ atFields[a].priority > atFields[b].priority
    \/ atFields[a].priority = atFields[b].priority /\ atFields[a].created < atFields[b].created
QueueOrder ==
    /\ \A c \in Codebases \cup {0} : \A s \in AgentTaskStatus \cup {"any"} :
          LET L == ListTasks(c, s) IN
          /\ \A t \in ATaskIds : Matches(t, c, s) <=> \E i \in 1..Len(L) : L[i] = t
          /\ \A i, j \in 1..Len(L) : i < j => (L[i] # L[j] /\ ~Precedes(L[j], L[i]))
    /\ \A c \in Codebases :
          LET r == GetNextPendingTask(c) IN
          IF \A t \in ATaskIds : ~Matches(t, c, "pending")
          THEN r = 0
          ELSE /\ r # 0 /\ Matches(r, c, "pending")
               /\ \A u \in ATaskIds : Matches(u, c, "pending") => ~Precedes(u, r)

\* Two PENDING tasks of one codebase, the younger one with the higher priority, which
\* get_next_pending_task returns; the other codebase has nothing pending.
QueueOrderWitness ==
    \E c \in Codebases : \E t, u \in ATaskIds :
        /\ t < u /\ Matches(t, c, "pending") /\ Matches(u, c, "pending")
        /\ atFields[t].created < atFields[u].created
        /\ atFields[t].priority < atFields[u].priority
        /\ GetNextPendingTask(c) = u
        /\ \E k \in Codebases : GetNextPendingTask(k) = 0

\* C16: once a stream has ended, by its final event or by the client going away,
\* its update handler is no longer registered for its task and its queue is no
\* longer in the streaming-connection table.
StreamCleanedUp ==
    \A s \in Streams :
        spc[s] \in {"ended", "dropped"} =>
            /\ \A i \in 1..Len(handlers[stask[s]]) : handlers[stask[s]][i] # s
            /\ \A i \in 1..Len(sconns[stask[s]]) : sconns[stask[s]][i] # s

\* C17: the stream that tasks/resubscribe opens for an existing task is a stream of
\* that task (its handler is registered for it), and no task is created for it.
ResubscribeSameTask ==
    \A s \in Streams :
        (sresub[s] # 0 /\ spc[s] # "idle") =>
            /\ stask[s] = sresub[s]
            /\ \E i \in 1..Len(handlers[sresub[s]]) : handlers[sresub[s]][i] = s

\* C18: on a server whose card declares authentication, a well-formed request
\* without a valid Bearer token is answered with error -32001 and its method
\* handler is not called.
AuthEnforced ==
    \A r \in Sends :
        ( /\ cfgAuth
          /\ qgate[r] # 0
          /\ qkind[r] \notin {"bad_json", "bad_request"}
          /\ qtoken[r] # "good" )
            => qgate[r] = -32001

\* C19: no step in the handling of a request that is malformed, invalid, names an
\* unknown method, has invalid params or fails authentication creates a task,
\* changes the status of a task or emits a task event.
Rejected(k, g) == k \in {"bad_json", "bad_request", "unknown_method", "bad_params"} \/ g = -32001
ErrorsChangeNoTask ==
    [][\A r \in Sends :
          ( /\ Rejected(qkind'[r], qgate'[r])
            /\ (qgate'[r] # qgate[r] \/ rpc'[r] # rpc[r]) )
              => (tStatus' = tStatus /\ evLog' = evLog)]_vars

\* A request was refused, for its params or for its token, after a task had been
\* created.
ErrorsChangeNoTaskWitness ==
    /\ \E t \in TaskIds : tStatus[t] # "none"
    /\ \E r \in Sends :
          \/ qkind[r] = "bad_params" /\ rpc[r] = "replied"
          \/ qgate[r] = -32001

\* The request r is the only one that names its task: the task was created for it.
OnNewTask(r) == rtask[r] # 0 /\ \A q \in Sends \ {r} : rtask[q] # rtask[r]

\* C20: a message/send that succeeds on a new task has emitted exactly the events
\* WORKING (final=false) then COMPLETED (final=true), and the task in its result
\* has status COMPLETED, with the in-memory task manager and with RedisTaskManager.
SendResultCompleted ==
    \A r \in Sends :
        (rpc[r] = "replied" /\ rresp[r] = "result" /\ OnNewTask(r))
            => /\ evLog[rtask[r]] = <<NewEvent("working", FALSE), NewEvent("completed", TRUE)>>
               /\ rresStatus[r] = "completed"

\* C21: InMemoryTaskManager and RedisTaskManager are interchangeable: after every
\* sequence of create_task, update_task_status, cancel_task and delete_task calls
\* made on both, get_task and list_tasks return tasks of equal status, progress and
\* message log, and both have emitted the same sequence of events.
BackendsAgree ==
    kcall = NoCall =>
        /\ \A t \in TaskIds : MemGet(t) = RedisGet(t)
        /\ \A s \in TaskStatus \cup {"any"} : MemList(s) = RedisList(s)
        /\ \A t \in TaskIds : evLog[t] = kEvLog[t]

\* C22: whenever RedisTaskManager.update_task_status passes an event to
\* _notify_handlers, the updated task the event carries is already what the store
\* holds under the task's key.
StoredBeforeNotified ==
    [][\A t \in TaskIds :
          kEvLog'[t] # kEvLog[t] =>
              /\ kHash[t] = SerializeTask(kcall.task)
              /\ kHash[t].status = kEvLog'[t][Len(kEvLog'[t])].status]_vars

\* An update that changed the status of a stored task has notified and returned.
StoredBeforeNotifiedWitness ==
    /\ kcall = NoCall
    /\ \E t \in TaskIds :
          /\ Len(kEvLog[t]) = 1
          /\ kEvLog[t][1].status = "working"
          /\ kHash[t].status = "working"

\* C30: round trip: whenever RedisTaskManager stores a Task, what _deserialize_task
\* makes of the stored hash equals the Task in status, title, progress and message
\* log, so a later get_task returns the field values last written.
SerializeRoundTrip ==
    [][\A t \in TaskIds :
          (kHash'[t] # kHash[t] /\ kHash'[t] # NoHash)
              => DeserializeTask(kHash'[t]) = kcall.task]_vars

\* C27: every update_task_status call leaves the task's progress within [0, 1] and
\* not below what it was before the call.
ProgressMonotone ==
    [][\A t \in TaskIds :
          evLog'[t] # evLog[t] =>
              /\ tProgress'[t] \in 0..ProgressSteps
              /\ tProgress'[t] >= tProgress[t]]_vars

\* C23: whatever start_watch_mode calls were made for a codebase, overlapping ones
\* among them, at most one watch loop runs for it, and it is the one recorded in
\* _watch_tasks.
OneWatchLoop == \A c \in Codebases : Running(c) \subseteq {watchRec[c]}

\* C24: after stop_watch_mode(c) returned True and until start_watch_mode(c) is
\* called again, no watch loop of c runs or is recorded, watch_mode is false and
\* the status is not WATCHING, so no watch loop picks up a pending task of c.
StopStops ==
    \A c \in stopped :
        /\ Running(c) = {}
        /\ watchRec[c] = 0
        /\ ~cbWatch[c]
        /\ cbStatus[c] # "watching"

\* C25: the row stored for an AgentTask has the status and completed_at of the task
\* in memory, so that _load_from_database after a restart makes the same task; a
\* finished task has no row that says PENDING.
PersistedMatches ==
    \A t \in ATaskIds :
        atStatus[t] # "none" => atSaved[t] = Row(atStatus[t], atCompleted[t])

\* C29: the result stored on an AgentTask that has reached a terminal status is at
\* most 5000 characters long, whether the watch loop set it or a worker sent it with
\* PUT /tasks/{id}/status.
ResultBounded ==
    \A t \in ATaskIds : atStatus[t] \in AgentTerminal => atResult[t] <= ResultLimit

\* C28: GET /tasks?status=pending&worker_id=W returns only PENDING tasks of
\* codebases bound to worker W, never a task of a codebase bound to another worker.
OnlyOwnTasks ==
    \A w \in Workers :
        \A i \in 1..Len(GetTasks(w, "pending")) :
            LET t == GetTasks(w, "pending")[i] IN
                /\ atStatus[t] = "pending"
                /\ BoundWorker(atFields[t].codebase) = w

HandlerIsolation ==
    /\ \A h \in HandlerIds, t \in TaskIds, e \in 1..MaxUpdateCalls :
        (\E i \in 1..Len(ready) : ready[i] = [h |-> h, task |-> t, ev |-> e])
            ~> (<<t, e>> \in hseen[h])
    /\ \A u \in 1..MaxUpdateCalls :
        (/\ u <= Len(ucalls)
         /\ \E c \in hung : c.task = ucalls[u].task /\ c.ev < ucalls[u].ev)
            ~> (u <= Len(ucalls) /\ ucalls[u].returned)

FrameShowsTransition ==
    \A s \in Streams : \A i \in 1..Len(sframes[s]) :
        LET f == sframes[s][i] IN
            f.ev # 0 =>
                /\ f.status = evLog[stask[s]][f.ev].status
                /\ ~f.final => f.status \notin Terminal

\* C34: between the calls made on a RedisTaskManager, every task that has a hash is
\* in tasks:all and in the status set of its stored status and in no other, and an
\* id without a hash is in no set; so list_tasks(status) returns exactly the stored
\* tasks of that status.
StatusIndexExact ==
    kcall = NoCall =>
        /\ \A t \in TaskIds, s \in TaskStatus :
            t \in kIdx[s] <=> (kHash[t] # NoHash /\ kHash[t].status = s)
        /\ kAll = {t \in TaskIds : kHash[t] # NoHash}
        /\ \A s \in TaskStatus :
            RedisList(s) = {RedisGet(t) : t \in {u \in TaskIds : /\ kHash[u] # NoHash
                                                                 /\ kHash[u].status = s}}

\* C35: an AgentTask that a watch loop has set RUNNING comes to COMPLETED or FAILED,
\* or is PENDING again, also when stop_watch_mode cancels the loop that executes it.
RunningTaskEnds ==
    \A t \in ATaskIds :
        (atStatus[t] = "running") ~> (atStatus[t] \in {"completed", "failed", "pending"})

\* C36: once unregister_codebase(c) has returned True, list_tasks returns no task of
\* c, get_next_pending_task(c) returns None, and no watch loop runs for c.
TasksOfRegistered ==
    \A c \in cbGone :
        /\ ListTasks(c, "any") = <<>>
        /\ \A i \in 1..Len(ListTasks(0, "any")) : atFields[ListTasks(0, "any")[i]].codebase # c
        /\ GetNextPendingTask(c) = 0
        /\ Running(c) = {}

\* C37: after logout(session_id) has returned, a request that presents the access
\* token of that session is not authenticated: get_current_user returns no user and
\* require_auth answers 401.
LoggedOutRejected ==
    \A i \in Logins :
        usess[i].state = "out" => GetCurrentUser(i) = NoUser /\ ~RequireAuth(i)

\* C38: a per-user read endpoint gives the data of user uid only to a caller
\* authenticated as uid; the answer to any other caller, one without credentials
\* included, is the answer it would get if uid had no codebases and no sessions.
OnlyOwnData ==
    (authResp # NoResp /\ authResp.user # authResp.uid) => authResp.body = authResp.blind

\* C39: what a worker sends is, task after task, status running and then one
\* terminal status (completed or failed) for the same task, so no task is begun
\* while another is executed; a running status is sent only while the worker's
\* running flag is set; and the worker is inside execute_task exactly when its last
\* running status has no terminal status yet.
WorkerProtocol ==
    \A w \in Workers :
        /\ \A i \in 1..Len(awSent[w]) :
            IF i % 2 = 1
            THEN awSent[w][i].status = "running" /\ awSent[w][i].on
            ELSE /\ awSent[w][i].status \in {"completed", "failed"}
                 /\ awSent[w][i].task = awSent[w][i - 1].task
        /\ (wpc[w] = "exec") <=> (Len(awSent[w]) % 2 = 1)

\* A worker that was stopped and has left its loop: it has sent running and one
\* terminal status for the task it executed, and a task that is still pending was
\* not begun.
WorkerProtocolWitness ==
    \E w \in Workers :
        /\ wpc[w] = "exited"
        /\ Len(awSent[w]) = 2
        /\ \E t \in ATaskIds : atStatus[t] = "pending"

====
